---- MODULE Spec2Model ----
(***************************************************************************)
(* Download jobs of the capture extension: the offscreen job manager       *)
(* (startDownloadJob / cancelDownloadJob over the activeDownloads map),    *)
(* the segment fetcher with its retry loop, the status store of the        *)
(* background worker (updateDownloadState) and the chrome.downloads        *)
(* collaborator.                                                           *)
(*                                                                         *)
(* One step of the model is one turn of the JavaScript event loop: a       *)
(* process resumes from the await it was suspended on and runs             *)
(* synchronously to its next await on a fetch, a timer or a runtime        *)
(* message.  The value of job[i].pc names the await a download job is      *)
(* suspended on.                                                           *)
(***************************************************************************)
EXTENDS Integers, Sequences, FiniteSets, TLC

\* ---------------------------------------------------------------- bounds
MaxSegs == 2
MaxNetFailures == 1
MaxDrops == 1
FetchMaxFailures == 14
FetchMaxSegs == 1
RegistryMaxSegs == 1
RegistryMaxNetFailures == 1
LiveMaxSegs == 1
LiveMaxNetFailures == 1
SleepMaxCalls == 3
SubmitMaxSegs == 1
SubmitMaxNetFailures == 1
MaxTracks == 2
MaxHeight == 2
MaxLines == 3
IdentityMaxSegs == 1
MaxTitlePieces == 2
MaxIdPieces == 1
MaxProgressive == 2
MaxCaptures == 2
MaxPopupWrites == 1
MaxMediaLines == 1

\* ------------------------------------------------------ program constants
MAX_SEGMENT_RETRIES == 12
BackoffBaseMs == 250
BackoffCapMs == 3000
MaxNameLength == 180
MAX_ITEMS == 30
MaxVideoIdLength == 48

\* the start requests and the cancel requests a run can contain
Jobs == {1, 2}
Cancels == {1}

VARIABLES
  activeDownloads,   \* mediaKey -> index of the registered job, 0 when absent
  job,               \* per start request: the running startDownloadJob call
  canc,              \* per cancel request: the running cancelDownloadJob call
  statusQ,           \* updateDownloadState calls in progress, in arrival order
  downloadState,     \* stored status map: mediaKey -> state
  browserDownloads,  \* download ids chrome.downloads.download has returned
  downloadCancels,   \* download ids chrome.downloads.cancel was called with
  netBudget,         \* failed network attempts the environment may still cause
  dropBudget,        \* status messages the environment may still fail to deliver
  cfg,               \* inputs of the run: offered URLs, segment and request limits
  capturedItems,     \* stored list of captured media URLs, first item on top
  capture,           \* the running captureUrl call, the clock, the popup's removal
  offscreen          \* the offscreen document and the ensureOffscreenDocument calls

vars == <<activeDownloads, job, canc, statusQ, downloadState, browserDownloads,
          downloadCancels, netBudget, dropBudget, cfg, capturedItems, capture, offscreen>>

\* ------------------------------------------------------------------ URLs
\* A URL is named and stands for its parsed form (new URL(urlString)):
\* hostname as the sequence of its labels, pathname as the sequence of its
\* segments (a trailing slash is a last segment ""), and the videoId
\* parameter of its query ("" when absent; other parameters go in "rest").
Urls ==
  {"custom_a", "custom_a_hd", "custom_a_q", "custom_a_slash", "custom_b",
   "custom_deep", "custom_nores", "vimeo_v", "player_v", "other"}

CustomUrl(tail, rest) ==
  [hostname |-> <<"fs", "getcourse", "ru">>,
   pathname |-> <<"api", "playlist", "media">> \o tail,
   videoId |-> "", rest |-> rest]

ParsedUrl(u) ==
  CASE u = "custom_a" -> CustomUrl(<<"a", "720">>, "")
    [] u = "custom_a_hd" -> CustomUrl(<<"a", "1080">>, "")
    [] u = "custom_a_q" -> CustomUrl(<<"a", "720">>, "user-cdn=x")
    [] u = "custom_a_slash" -> CustomUrl(<<"a", "720", "">>, "")
    [] u = "custom_b" -> CustomUrl(<<"b", "720">>, "")
    [] u = "custom_deep" -> CustomUrl(<<"x", "a", "720">>, "")
    [] u = "custom_nores" -> CustomUrl(<<"a", "master.m3u8">>, "")
    [] u = "vimeo_v" ->
         [hostname |-> <<"vod", "vimeocdn", "com">>,
          pathname |-> <<"e1234567-89ab", "v2", "playlist", "av", "primary",
                         "playlist.json">>,
          videoId |-> "1", rest |-> ""]
    [] u = "player_v" ->
         [hostname |-> <<"player", "vimeo", "com">>,
          pathname |-> <<"video", "1">>, videoId |-> "", rest |-> "h=x"]
    [] OTHER ->
         [hostname |-> <<"example", "com">>, pathname |-> <<"video.mp4">>,
          videoId |-> "", rest |-> ""]

\* the segments that match \d+
Digits == {"1", "720", "1080"}

\* the segments that match e[0-9a-f-]{8,}
EidSegments == {"e1234567-89ab"}

NoInfo == [mediaKey |-> "", videoId |-> "", resolution |-> "", sourceType |-> "none"]

RECURSIVE Join(_)
\* the segments joined by "/"
Join(segs) ==
  IF segs = <<>> THEN ""
  ELSE IF Len(segs) = 1 THEN segs[1] ELSE segs[1] \o "/" \o Join(Tail(segs))

\* the positions n at which the segments of part stand in path and are
\* followed by a "/", that is by at least one more segment
Occurrences(path, part) ==
  {n \in 1 .. Len(path) :
     n + Len(part) <= Len(path) /\ SubSeq(path, n, n + Len(part) - 1) = part}

First(S) == CHOOSE n \in S : \A m \in S : n <= m

\* the tail without the one trailing slash the pattern allows
StripSlash(tail) ==
  IF tail # <<>> /\ tail[Len(tail)] = "" THEN SubSeq(tail, 1, Len(tail) - 1) ELSE tail

\* a match that takes the resolution into the key
MatchKeyResolution_WithDigits(tail) ==
  LET t == StripSlash(tail)
  IN IF Len(t) >= 2 /\ t[Len(t)] \in Digits /\ Join(SubSeq(t, 1, Len(t) - 1)) # ""
     THEN [key |-> Join(t), resolution |-> t[Len(t)]]
     ELSE [key |-> "", resolution |-> ""]

\* tail.match(/^(.+)\/(\d+)\/?$/): the key and the resolution, key "" for no match
MatchKeyResolution(tail) ==
  LET t == StripSlash(tail)
  IN IF Len(t) >= 2 /\ t[Len(t)] \in Digits /\ Join(SubSeq(t, 1, Len(t) - 1)) # ""
     THEN [key |-> Join(SubSeq(t, 1, Len(t) - 1)), resolution |-> t[Len(t)]]
     ELSE [key |-> "", resolution |-> ""]

extractCustomMediaInfoFromParsedUrl(parsed) ==
  LET marker == <<"api", "playlist", "media">>
      found == Occurrences(parsed.pathname, marker)
      markerIndex == First(found)
      tail == SubSeq(parsed.pathname, markerIndex + Len(marker), Len(parsed.pathname))
      match == MatchKeyResolution(tail)
      segments ==
        SelectSeq(SubSeq(StripSlash(tail), 1, Len(StripSlash(tail)) - 1),
                  LAMBDA g : g # "")
  IN IF found = {} THEN NoInfo
     ELSE IF match.key = "" THEN NoInfo
     ELSE [mediaKey |-> match.key,
           videoId |-> IF Len(segments) > 0 THEN segments[Len(segments)] ELSE match.key,
           resolution |-> match.resolution, sourceType |-> "custom"]

\* /(^|\.)vimeocdn\.com$/i
isVimeoCdnHost(hostname) ==
  Len(hostname) >= 2 /\ SubSeq(hostname, Len(hostname) - 1, Len(hostname)) = <<"vimeocdn", "com">>

isVimeoPlaylistJsonUrl(parsed) ==
  /\ isVimeoCdnHost(parsed.hostname)
  /\ Occurrences(parsed.pathname, <<"v2", "playlist", "av">>) # {}
  /\ parsed.pathname # <<>>
  /\ parsed.pathname[Len(parsed.pathname)] = "playlist.json"

extractVimeoMediaInfoFromParsedUrl(parsed) ==
  LET path == parsed.pathname
      videoAt == {n \in 1 .. Len(path) - 1 : path[n] = "video" /\ path[n + 1] \in Digits}
      videoIdFromPath == IF videoAt = {} THEN "" ELSE path[First(videoAt) + 1]
      videoIdFromQuery == parsed.videoId
      eidAt == {n \in 1 .. Len(path) - 1 : path[n] \in EidSegments}
      eidFromPath == IF eidAt = {} THEN "" ELSE path[First(eidAt)]
      mediaSeed ==
        IF videoIdFromPath # "" THEN videoIdFromPath
        ELSE IF videoIdFromQuery # "" THEN videoIdFromQuery
        ELSE IF eidFromPath # "" THEN eidFromPath
        ELSE "/" \o Join(path)
  IN IF ~isVimeoPlaylistJsonUrl(parsed) THEN NoInfo
     ELSE [mediaKey |-> "vimeo:" \o mediaSeed, videoId |-> mediaSeed,
           resolution |-> "adaptive", sourceType |-> "vimeo"]

extractVimeoPlayerPageInfoFromParsedUrl(parsed) ==
  LET path == IF parsed.pathname # <<>> /\ parsed.pathname[Len(parsed.pathname)] = ""
              THEN SubSeq(parsed.pathname, 1, Len(parsed.pathname) - 1)
              ELSE parsed.pathname
  IN IF parsed.hostname = <<"player", "vimeo", "com">>
        /\ Len(path) = 2 /\ path[1] = "video" /\ path[2] \in Digits
     THEN [mediaKey |-> "vimeo:" \o path[2], videoId |-> path[2],
           resolution |-> "adaptive", sourceType |-> "vimeo-player-page"]
     ELSE NoInfo

\* extractMediaInfoFromUrl: the first of the three classifications that applies
extractMediaInfoFromUrl(u) ==
  LET parsed == ParsedUrl(u)
  IN IF extractCustomMediaInfoFromParsedUrl(parsed) # NoInfo
     THEN extractCustomMediaInfoFromParsedUrl(parsed)
     ELSE IF extractVimeoMediaInfoFromParsedUrl(parsed) # NoInfo
          THEN extractVimeoMediaInfoFromParsedUrl(parsed)
          ELSE extractVimeoPlayerPageInfoFromParsedUrl(parsed)

MediaKeys == {extractMediaInfoFromUrl(u).mediaKey : u \in Urls} \ {""}

\* options of a start request: what the embedded frame and the caller supplied
NoOptions ==
  [progressive |-> FALSE, frameManifest |-> FALSE, framePlayerUrl |-> FALSE,
   vimeoPlayerPageUrl |-> FALSE, pageUrl |-> FALSE]

OptionChoices ==
  { NoOptions,
    [NoOptions EXCEPT !.progressive = TRUE],
    [NoOptions EXCEPT !.progressive = TRUE, !.frameManifest = TRUE],
    [NoOptions EXCEPT !.frameManifest = TRUE, !.framePlayerUrl = TRUE],
    [NoOptions EXCEPT !.vimeoPlayerPageUrl = TRUE],
    [NoOptions EXCEPT !.pageUrl = TRUE],
    [NoOptions EXCEPT !.progressive = TRUE, !.pageUrl = TRUE] }

\* the controller reads the frame's sources only for a manifest URL; the
\* lesson page URL travels with every request and is used by the orchestrator
OptionsFor(u) ==
  CASE extractMediaInfoFromUrl(u).sourceType = "vimeo" -> OptionChoices
    [] extractMediaInfoFromUrl(u).sourceType = "vimeo-player-page" ->
         {NoOptions, [NoOptions EXCEPT !.pageUrl = TRUE]}
    [] OTHER -> {NoOptions}

\* ----------------------------------------------------------- job records
IdleJob ==
  [pc |-> "idle", url |-> "other", mediaKey |-> "", sourceType |-> "none",
   options |-> NoOptions,
   cancelled |-> FALSE, aborted |-> FALSE, downloadId |-> 0,
   wait |-> FALSE, out |-> "none", thrown |-> "none",
   site |-> "none", caller |-> "none",
   segs |-> 0, idx |-> 0, attempt |-> 0, requests |-> 0, slept |-> <<>>,
   woken |-> FALSE, fetched |-> FALSE,
   hasChunks |-> FALSE, chunks |-> <<>>, reqOrder |-> <<>>, source |-> "given",
   fallback |-> "none", raised |-> FALSE,
   fetchedUrls |-> <<>>, mediaLines |-> <<>>, mediaBaseUrl |-> <<>>,
   segmentUrls |-> <<>>, filename |-> [name |-> <<>>, ext |-> ""],
   picked |-> [kind |-> "none", block |-> "none", cdn |-> "none", field |-> "none",
               index |-> 0],
   resolvedVia |-> FALSE, ffmpegInput |-> "none", playerPageUrl |-> FALSE,
   outcome |-> "none", err |-> "none", terminals |-> 0, objectText |-> <<>>,
   selection |-> [family |-> "none", index |-> 0]]

IdleCancel ==
  [pc |-> "idle", mediaKey |-> "", target |-> 0, downloadId |-> 0, wait |-> FALSE,
   found |-> FALSE, answer |-> "none"]

\* A request URL is [kind, key, resolution, userId, video]: a custom playlist
\* path (key and resolution after the marker), a canonical Vimeo manifest or
\* something else; whether the query has a user-id parameter and whether the
\* URL contains the word video.
RequestUrl(kind, key, resolution, userId) ==
  [kind |-> kind, key |-> key, resolution |-> resolution, userId |-> userId, video |-> TRUE]

IdleCapture ==
  [pc |-> "idle", url |-> RequestUrl("other", "", "", FALSE), items |-> <<>>, now |-> 0,
   clock |-> 0, count |-> 0, popupPc |-> "idle", popupItems |-> <<>>, popupKey |-> "",
   popupCount |-> 0]

\* the callers of ensureOffscreenDocument: START_DOWNLOAD and CANCEL_DOWNLOAD
\* handlers of the background worker
MaxCallers == 3
Callers == 1 .. MaxCallers

\* createDocument calls the browser may reject for a reason of its own
MaxCreateFailures == 1

\* no offscreen document, creatingOffscreenDocument = null (creating = 0), no
\* call of ensureOffscreenDocument; seen is what hasOffscreenDocument
\* returned, answer what createDocument settled with, awaited the caller
\* whose creation promise a waiting caller awaits
IdleOffscreen ==
  [documents |-> 0, creating |-> 0, getContexts |-> TRUE, failures |-> 0,
   call |-> [c \in Callers |->
               [pc |-> "idle", seen |-> FALSE, answer |-> "none", awaited |-> 0]]]

\* ------------------------------------------------ cancellation primitives
\* throwIfAborted without its check
throwIfAborted_NoCheck(aborted) == FALSE

\* throwIfAborted(signal): TRUE when it throws CancelledError
throwIfAborted(aborted) == aborted

\* isCancelledError that does not know the AbortError of fetch
isCancelledError_OwnClassOnly(e) == e = "CancelledError"

\* error instanceof CancelledError || error?.name === "AbortError"
isCancelledError(e) == e \in {"CancelledError", "AbortError"}

\* a throw out of a callee, seen by the caller's try/catch; raised records
\* that a cancellation error has been thrown in the job
Thrown(j, e) ==
  [j EXCEPT !.pc = "THROW", !.thrown = e,
            !.raised = @ \/ e \in {"CancelledError", "AbortError"}]

\* the outer catch deciding by the error alone, not by the job's flags
JobCatch_ErrorOnly(j, e) ==
  IF isCancelledError(e)
  THEN [j EXCEPT !.pc = "rep_terminal", !.outcome = "cancelled", !.out = "cancelled",
                 !.thrown = "none"]
  ELSE [j EXCEPT !.pc = "rep_terminal", !.outcome = "error", !.err = e,
                 !.out = "error", !.thrown = "none"]

\* the outer catch of startDownloadJob: every error becomes a terminal patch
JobCatch(j, e) ==
  IF isCancelledError(e) \/ j.cancelled \/ j.aborted
  THEN [j EXCEPT !.pc = "rep_terminal", !.outcome = "cancelled", !.out = "cancelled",
                 !.thrown = "none"]
  ELSE [j EXCEPT !.pc = "rep_terminal", !.outcome = "error", !.err = e,
                 !.out = "error", !.thrown = "none"]

\* a running-state patch followed by the await of its delivery
ReportRunning(j, label) == [j EXCEPT !.pc = label, !.out = "running"]

\* ------------------------------------------------------- fetch primitives
\* fetchText up to its await: the abort check, then the request
fetchText(j, site) ==
  IF throwIfAborted(j.aborted)
  THEN Thrown(j, "CancelledError")
  ELSE [j EXCEPT !.pc = "fetch_text", !.site = site, !.fetched = TRUE]

Min(a, b) == IF a < b THEN a ELSE b

Pow2(n) == IF n <= 0 THEN 1 ELSE 2 ^ n

\* the backoff without its cap
BackoffMs_NoCap(attempt) == BackoffBaseMs * Pow2(attempt)

\* Math.min(3000, 250 * Math.pow(2, attempt))
BackoffMs(attempt) == Min(BackoffCapMs, BackoffBaseMs * Pow2(attempt))

\* the give-up test off by one
RetriesExhausted_OffByOne(attempt, retries) == attempt > retries

\* the catch of the retry loop gives up when attempt >= retries
RetriesExhausted(attempt, retries) == attempt >= retries

\* top of the while loop of fetchSegmentWithRetry: abort check, then the request
SegmentLoopTop(j) ==
  IF throwIfAborted(j.aborted)
  THEN Thrown(j, "CancelledError")
  ELSE [j EXCEPT !.pc = "seg_fetch", !.requests = @ + 1, !.fetched = TRUE,
                 !.reqOrder = IF j.site = "segment" THEN Append(@, j.idx) ELSE @]

\* fetchSegmentWithRetry(url, MAX_SEGMENT_RETRIES, signal) up to its first await
fetchSegmentWithRetry(j, site) ==
  SegmentLoopTop([j EXCEPT !.site = site, !.attempt = 0, !.requests = 0,
                           !.slept = <<>>, !.woken = FALSE])

\* sleep(ms, signal) up to the promise it returns: the timer is set and the
\* abort listener added; signal.aborted is not read
sleep(j, ms) ==
  [j EXCEPT !.pc = "seg_sleep", !.slept = Append(@, ms), !.woken = FALSE]

\* the catch block of the retry loop, for the error e of the failed attempt:
\* pc "seg_sleep" awaits the backoff, "THROW" leaves the fetcher
SegmentAttemptFailed(j, e) ==
  IF isCancelledError(e)
  THEN Thrown(j, e)
  ELSE IF RetriesExhausted(j.attempt, MAX_SEGMENT_RETRIES)
       THEN Thrown(j, "SegmentFetchFailed")
       ELSE sleep([j EXCEPT !.attempt = @ + 1], BackoffMs(j.attempt))

\* how a pending sleep settles: rejected by its abort listener if that has
\* run, else resolved by its timer
SleepResult(j) == IF j.woken THEN "CancelledError" ELSE "resolved"

\* sleep(ms, signal) settles inside the retry loop
SleepSettled(j) ==
  IF SleepResult(j) = "CancelledError"
  THEN Thrown(j, "CancelledError")
  ELSE SegmentLoopTop(j)

\* ------------------------------------------------ merging and saving
\* after the chunks are there: the abort check and the "Merging segments..." patch
AfterChunks(j) ==
  IF throwIfAborted(j.aborted)
  THEN JobCatch(j, "CancelledError")
  ELSE ReportRunning(j, "rep_merging")

\* after the merging patch: build the blob, check the signal, start the browser download
StartSave(j) ==
  IF throwIfAborted(j.aborted)
  THEN JobCatch(j, "CancelledError")
  ELSE [j EXCEPT !.pc = "save_start"]

\* a success reported without the download id and without a look at the signal
SaveReturned_Unrecorded(j, id) ==
  [j EXCEPT !.pc = "rep_terminal", !.outcome = "success", !.out = "success"]

\* startBrowserDownload returned the download id: record it, check the signal,
\* cancel the download if the job was cancelled, else report success
SaveReturned(j, id) ==
  LET j1 == [j EXCEPT !.downloadId = id]
  IN IF throwIfAborted(j1.aborted)
     THEN JobCatch(j1, "CancelledError")
     ELSE IF j1.cancelled \/ j1.aborted
          THEN [j1 EXCEPT !.pc = "save_cancel"]
          ELSE [j1 EXCEPT !.pc = "rep_terminal", !.outcome = "success", !.out = "success"]

\* startBrowserDownload threw (the runtime message failed or was answered not ok)
SaveFailed(j) == JobCatch(j, "SaveFailed")

\* ------------------------------------------------ sequential segment loops
\* a loop that ends one segment early
LoopDone_Early(j) == j.idx + 1 >= j.segs

\* i < segmentUrls.length fails
LoopDone(j) == j.idx >= j.segs

\* head of the loop of downloadSegmentBuffers and of the manifest resolver's
\* loop, at index j.idx: abort check and progress patch, or return the chunks
SegmentLoopHead(j) ==
  IF LoopDone(j)
  THEN AfterChunks([j EXCEPT !.hasChunks = TRUE])
  ELSE IF throwIfAborted(j.aborted)
       THEN JobCatch(j, "CancelledError")
       ELSE ReportRunning(j, "rep_progress")

\* after the progress patch: fetch segment j.idx
ProgressReported(j) ==
  LET r == fetchSegmentWithRetry(j, "segment")
  IN IF r.pc = "THROW" THEN JobCatch(r, r.thrown) ELSE r

\* ------------------------------------------ segmented-playlist resolver
\* resolveSegmentUrlsFromPlaylistUrl up to its first await
resolveSegmentUrlsFromPlaylistUrl(j, caller) ==
  LET r == fetchText([j EXCEPT !.caller = caller], "playlist")
  IN IF r.pc = "THROW" THEN JobCatch(r, r.thrown) ELSE r

\* what a fetched playlist document can be: direct segment lines (n of them
\* resolve), a master playlist whose last content line names the media
\* playlist, or a document the resolver rejects
PlaylistDocs(maxSegs) ==
  {[kind |-> "direct", n |-> n] : n \in 1 .. maxSegs}
    \cup {[kind |-> "master", n |-> 0], [kind |-> "bad", n |-> 0]}

MediaPlaylistDocs(maxSegs) ==
  {[kind |-> "direct", n |-> n] : n \in 1 .. maxSegs} \cup {[kind |-> "bad", n |-> 0]}

\* the first document arrived
PlaylistFetched(j, doc) ==
  IF doc.kind = "direct"
  THEN SegmentLoopHead([j EXCEPT !.segs = doc.n, !.idx = 0, !.chunks = <<>>, !.reqOrder = <<>>])
  ELSE IF doc.kind = "master"
       THEN LET r == fetchText(j, "playlist2")
            IN IF r.pc = "THROW" THEN JobCatch(r, r.thrown) ELSE r
       ELSE JobCatch(j, "PlaylistError")

\* the media-level document arrived
MediaPlaylistFetched(j, doc) ==
  IF doc.kind = "direct"
  THEN SegmentLoopHead([j EXCEPT !.segs = doc.n, !.idx = 0, !.chunks = <<>>, !.reqOrder = <<>>])
  ELSE JobCatch(j, "PlaylistError")

\* ------------------------------------------------- fallback orchestrator
\* an end of the remux branch that tries the regenerated-TS fallback whether
\* an ffmpeg input is known or not
FinishFallback_TsFirst(j) ==
  IF j.resolvedVia
  THEN AfterChunks(j)
  ELSE ReportRunning(j, "rep_ts_fallback")

\* end of the remux branch: a progressive file was downloaded, or the ffmpeg
\* instruction is raised, or the regenerated-TS fallback is announced
FinishFallback(j) ==
  IF j.resolvedVia
  THEN AfterChunks(j)
  ELSE IF j.ffmpegInput # "none"
       THEN JobCatch(j, "FfmpegRequired")
       ELSE ReportRunning(j, "rep_ts_fallback")

\* after the TS-fallback patch: derive the playlist.m3u8 URL and resolve it
TsFallback(j) ==
  IF j.source = "json_odd"
  THEN JobCatch(j, "NoFallbackUrl")
  ELSE resolveSegmentUrlsFromPlaylistUrl(j, "ts")

\* player-page step of the orchestrator
PlayerStage(j) ==
  IF ~j.resolvedVia /\ j.playerPageUrl
  THEN ReportRunning(j, "rep_fb_player")
  ELSE FinishFallback(j)

\* after its patch: fetch the player page; its catch swallows every error
FallbackPlayerFetch(j) ==
  LET r == fetchText(j, "fb_player")
  IN IF r.pc = "THROW" THEN FinishFallback([r EXCEPT !.thrown = "none"]) ELSE r

PlayerPageDocs ==
  {"progressive", "manifest_json", "manifest_json_odd", "manifest_other", "bad"}

\* the player page arrived inside the orchestrator
FallbackPlayerFetched(j, doc) ==
  IF doc = "progressive"
  THEN ReportRunning(j, "rep_fb_progressive")
  ELSE IF doc = "bad"
       THEN FinishFallback(j)
       ELSE FinishFallback([j EXCEPT !.ffmpegInput = "player"])

FallbackProgressiveFetch(j) ==
  LET r == fetchSegmentWithRetry(j, "fb_progressive")
  IN IF r.pc = "THROW" THEN FinishFallback([r EXCEPT !.thrown = "none"]) ELSE r

\* player-page URL: supplied, else from the frame, else looked up on the lesson page
LookupStage(j) ==
  LET known == j.options.vimeoPlayerPageUrl \/ j.options.framePlayerUrl
  IN IF ~known /\ j.options.pageUrl
     THEN ReportRunning([j EXCEPT !.playerPageUrl = FALSE], "rep_lookup")
     ELSE PlayerStage([j EXCEPT !.playerPageUrl = known])

LessonPageFetch(j) ==
  LET r == fetchText(j, "lesson_page")
  IN IF r.pc = "THROW" THEN PlayerStage([r EXCEPT !.thrown = "none"]) ELSE r

\* the lesson page arrived: a player URL was found in it or not
LessonPageFetched(j, found) == PlayerStage([j EXCEPT !.playerPageUrl = found])

\* entry of the remux branch: the frame-supplied sources
EmbeddedStage(j) ==
  LET j1 == [j EXCEPT !.resolvedVia = FALSE,
                      !.ffmpegInput = IF j.options.frameManifest THEN "frame" ELSE "none"]
  IN IF j.options.progressive
     THEN ReportRunning(j1, "rep_emb_progressive")
     ELSE LookupStage(j1)

EmbeddedProgressiveFetch(j) ==
  LET r == fetchSegmentWithRetry(j, "emb_progressive")
  IN IF r.pc = "THROW" THEN LookupStage([r EXCEPT !.thrown = "none"]) ELSE r

\* ------------------------------------------------------- track selection
\* A track is [family, index, usable, height, audio]: the array of the
\* manifest it stands in and its position there, whether it has a non-empty
\* segment list or a direct URL, its height, and whether any of the
\* embedded-audio signals is set.  The tracks of the quality harness have,
\* or lack, max_height, bitrate, avg_bitrate, bandwidth and segments (the
\* length of the segment list) as well.
hasUsableTrackSource(track) == track.usable

trackLikelyHasEmbeddedAudio(track) == track.audio

\* a lookup in which a missing field counts as 0
getTrackNumericValue_Zero(track, keys) ==
  LET present == {n \in 1 .. Len(keys) : keys[n] \in DOMAIN track}
  IN IF present = {} THEN 0 ELSE track[keys[First(present)]]

\* getTrackNumericValue: the value of the first of the keys the track has a
\* finite number for, else -1; a field a track record does not have is a
\* field the manifest does not give
getTrackNumericValue(track, keys) ==
  LET present == {n \in 1 .. Len(keys) : keys[n] \in DOMAIN track}
  IN IF present = {} THEN -1 ELSE track[keys[First(present)]]

\* Array.isArray(track.segments) ? track.segments.length : 0
SegmentCount(track) == IF "segments" \in DOMAIN track THEN track.segments ELSE 0

\* the comparator of sortTracksByQuality, as compare(a, b) > 0: b goes first
SortsAfter(a, b) ==
  LET heightDelta == getTrackNumericValue(b, <<"height", "max_height">>)
                       - getTrackNumericValue(a, <<"height", "max_height">>)
      bitrateDelta == getTrackNumericValue(b, <<"bitrate", "avg_bitrate", "bandwidth">>)
                        - getTrackNumericValue(a, <<"bitrate", "avg_bitrate", "bandwidth">>)
  IN IF heightDelta # 0 THEN heightDelta > 0
     ELSE IF bitrateDelta # 0 THEN bitrateDelta > 0
     ELSE SegmentCount(b) - SegmentCount(a) > 0

RECURSIVE InsertByQuality(_, _)
\* the place a stable sort gives track t, which came after the tracks of q,
\* in the sorted sequence q
InsertByQuality(q, t) ==
  IF q = <<>> THEN <<t>>
  ELSE IF ~SortsAfter(q[1], t)
       THEN <<q[1]>> \o InsertByQuality(Tail(q), t)
       ELSE <<t>> \o q

RECURSIVE sortTracksByQuality(_)
\* tracks.sort with the comparator; the sort is stable
sortTracksByQuality(tracks) ==
  IF tracks = <<>> THEN <<>>
  ELSE InsertByQuality(sortTracksByQuality(SubSeq(tracks, 1, Len(tracks) - 1)),
                       tracks[Len(tracks)])

NoSelection == [family |-> "none", index |-> 0]

Selected(track, family) ==
  [selection |-> [family |-> family, index |-> track.index], err |-> "none"]

SelectionThrew(e) == [selection |-> NoSelection, err |-> e]

\* a selection that takes the best video track whether it has audio or not
pickBestVimeoTrackSelection_AnyVideo(manifest) ==
  LET muxedTracks == sortTracksByQuality(SelectSeq(manifest.muxed, hasUsableTrackSource))
      audioVideoTracks ==
        sortTracksByQuality(SelectSeq(manifest.audio_video, hasUsableTrackSource))
      videoTracks == sortTracksByQuality(SelectSeq(manifest.video, hasUsableTrackSource))
  IN IF muxedTracks # <<>> THEN Selected(muxedTracks[1], "muxed")
     ELSE IF audioVideoTracks # <<>> THEN Selected(audioVideoTracks[1], "audio_video")
     ELSE IF videoTracks # <<>> THEN Selected(videoTracks[1], "video_embedded_audio")
     ELSE SelectionThrew("NoTrack")

\* a selection that takes the best usable track of the three families together
pickBestVimeoTrackSelection_ByQuality(manifest) ==
  LET all == sortTracksByQuality(
               SelectSeq(manifest.muxed \o manifest.audio_video
                           \o SelectSeq(manifest.video, trackLikelyHasEmbeddedAudio),
                         hasUsableTrackSource))
  IN IF all # <<>>
     THEN Selected(all[1], IF all[1].family = "video" THEN "video_embedded_audio"
                           ELSE all[1].family)
     ELSE SelectionThrew("NoTrack")

\* pickBestVimeoTrackSelection and the null test of its caller: the selected
\* track and family, or the error raised
pickBestVimeoTrackSelection(manifest) ==
  LET muxedTracks == sortTracksByQuality(SelectSeq(manifest.muxed, hasUsableTrackSource))
      audioVideoTracks ==
        sortTracksByQuality(SelectSeq(manifest.audio_video, hasUsableTrackSource))
      videoTracks == sortTracksByQuality(SelectSeq(manifest.video, hasUsableTrackSource))
      embeddedAudioTracks == SelectSeq(videoTracks, trackLikelyHasEmbeddedAudio)
      hasSeparateAudioTracks ==
        \E n \in 1 .. Len(manifest.audio) : hasUsableTrackSource(manifest.audio[n])
  IN IF muxedTracks # <<>> THEN Selected(muxedTracks[1], "muxed")
     ELSE IF audioVideoTracks # <<>> THEN Selected(audioVideoTracks[1], "audio_video")
     ELSE IF videoTracks # <<>>
          THEN IF embeddedAudioTracks # <<>>
               THEN Selected(embeddedAudioTracks[1], "video_embedded_audio")
               ELSE IF hasSeparateAudioTracks
                    THEN SelectionThrew("NeedsRemux")
                    ELSE SelectionThrew("VideoOnly")
          ELSE SelectionThrew("NoTrack")

\* a catch that takes every error of the resolver for the remux condition
IsRemuxMessage_Any(e) == TRUE

\* message.includes("Separate audio/video Vimeo streams require remuxing")
IsRemuxMessage(e) == e = "NeedsRemux"

\* --------------------------------------------- adaptive-manifest resolver
\* the errors resolveVimeoChunksFromPlaylistJson raises over the document:
\* the text is not JSON, no track is selected (no usable track, a silent
\* video-only track, or the remux condition), the track has no segment URL
ManifestErrors == {"InvalidJson", "NoTrack", "VideoOnly", "NeedsRemux", "NoSegmentUrls"}

\* what the manifest can be: a selected track with n segment URLs, or a
\* document over which the resolver raises err
ManifestDocs(maxSegs) ==
  {[kind |-> "track", n |-> n, err |-> "none"] : n \in 1 .. maxSegs}
    \cup {[kind |-> "error", n |-> 0, err |-> e] : e \in ManifestErrors}

\* the catch around the manifest resolver: the remux error enters the
\* orchestrator, every other error is thrown again
ManifestResolverThrew(j, e) ==
  IF IsRemuxMessage(e)
  THEN EmbeddedStage([j EXCEPT !.thrown = "none", !.fallback = e])
  ELSE JobCatch(j, e)

\* after the "Resolving Vimeo playlist..." patch: fetch the manifest
ManifestFetch(j) ==
  LET r == fetchText(j, "manifest")
  IN IF r.pc = "THROW" THEN ManifestResolverThrew(r, r.thrown) ELSE r

\* the manifest arrived: the segment loop over the selected track, or the error
ManifestFetched(j, doc) ==
  IF doc.kind = "track"
  THEN SegmentLoopHead([j EXCEPT !.segs = doc.n, !.idx = 0, !.chunks = <<>>, !.reqOrder = <<>>, !.caller = "vimeo"])
  ELSE ManifestResolverThrew(j, doc.err)

\* ------------------------------------------------- source-type dispatch
\* the if / else-if over mediaInfo.sourceType and chunks.length
ResolveSource(j) ==
  IF ~j.hasChunks
     /\ (j.sourceType = "vimeo"
         \/ (j.sourceType = "vimeo-player-page"
             /\ j.source \in {"manifest_json", "manifest_json_odd"}))
  THEN ReportRunning(j, "rep_vimeo")
  ELSE IF ~j.hasChunks
       THEN resolveSegmentUrlsFromPlaylistUrl(j, "generic")
       ELSE AfterChunks(j)

\* head of the try block, after the "Resolving playlist..." patch
AfterResolving(j) ==
  IF j.sourceType = "vimeo-player-page"
  THEN ReportRunning(j, "rep_player_config")
  ELSE ResolveSource(j)

PlayerPageFetch(j) ==
  LET r == fetchText(j, "player_page")
  IN IF r.pc = "THROW" THEN JobCatch(r, r.thrown) ELSE r

\* the player page of a player-page source arrived
PlayerPageFetched(j, doc) ==
  IF doc = "progressive"
  THEN ReportRunning(j, "rep_pp_progressive")
  ELSE IF doc = "bad"
       THEN JobCatch(j, "PlayerConfigError")
       ELSE ResolveSource([j EXCEPT !.source = doc])

PlayerProgressiveFetch(j) ==
  LET r == fetchSegmentWithRetry(j, "pp_progressive")
  IN IF r.pc = "THROW" THEN JobCatch(r, r.thrown) ELSE r

\* ----------------------------------------------------------- dispatchers
\* the continuation of a delivered (or failed) running-state patch
AfterPatch(j) ==
  CASE j.pc = "rep_resolving" -> AfterResolving(j)
    [] j.pc = "rep_player_config" -> PlayerPageFetch(j)
    [] j.pc = "rep_pp_progressive" -> PlayerProgressiveFetch(j)
    [] j.pc = "rep_vimeo" -> ManifestFetch(j)
    [] j.pc = "rep_progress" -> ProgressReported(j)
    [] j.pc = "rep_emb_progressive" -> EmbeddedProgressiveFetch(j)
    [] j.pc = "rep_lookup" -> LessonPageFetch(j)
    [] j.pc = "rep_fb_player" -> FallbackPlayerFetch(j)
    [] j.pc = "rep_fb_progressive" -> FallbackProgressiveFetch(j)
    [] j.pc = "rep_ts_fallback" -> TsFallback(j)
    [] j.pc = "rep_merging" -> StartSave(j)
    [] OTHER -> j

RunningPatchLabels ==
  {"rep_resolving", "rep_player_config", "rep_pp_progressive", "rep_vimeo",
   "rep_progress", "rep_emb_progressive", "rep_lookup", "rep_fb_player",
   "rep_fb_progressive", "rep_ts_fallback", "rep_merging"}

\* a chunk list built with unshift
ChunksPush_Front(chunks, n) == <<n>> \o chunks

\* chunks.push(buffer): the buffer of segmentUrls[n] is named by n
ChunksPush(chunks, n) == Append(chunks, n)

\* fetchSegmentWithRetry returned the bytes to its caller
SegmentReturned(j) ==
  CASE j.site = "segment" ->
         SegmentLoopHead([j EXCEPT !.chunks = ChunksPush(@, j.idx), !.idx = @ + 1])
    [] j.site = "pp_progressive" -> ResolveSource([j EXCEPT !.hasChunks = TRUE])
    [] j.site = "emb_progressive" ->
         LookupStage([j EXCEPT !.hasChunks = TRUE, !.resolvedVia = TRUE])
    [] j.site = "fb_progressive" ->
         FinishFallback([j EXCEPT !.hasChunks = TRUE, !.resolvedVia = TRUE])
    [] OTHER -> j

\* fetchSegmentWithRetry threw e: the innermost enclosing catch takes it
SegmentThrew(j, e) ==
  CASE j.site = "emb_progressive" -> LookupStage([j EXCEPT !.thrown = "none"])
    [] j.site = "fb_progressive" -> FinishFallback([j EXCEPT !.thrown = "none"])
    [] j.site = "segment" /\ j.caller = "vimeo" -> ManifestResolverThrew(j, e)
    [] OTHER -> JobCatch(j, e)

\* a step of the retry loop that may have left the fetcher by a throw
SegmentStep(r) == IF r.pc = "THROW" THEN SegmentThrew(r, r.thrown) ELSE r

\* fetchText resolved with the document doc
TextFetched(j, doc) ==
  CASE j.site = "playlist" -> PlaylistFetched(j, doc)
    [] j.site = "playlist2" -> MediaPlaylistFetched(j, doc)
    [] j.site = "manifest" -> ManifestFetched(j, doc)
    [] j.site = "player_page" -> PlayerPageFetched(j, doc)
    [] j.site = "lesson_page" -> LessonPageFetched(j, doc)
    [] j.site = "fb_player" -> FallbackPlayerFetched(j, doc)
    [] OTHER -> j

\* the documents the environment can answer a fetchText with
TextDocs(j, maxSegs) ==
  CASE j.site = "playlist" -> PlaylistDocs(maxSegs)
    [] j.site = "playlist2" -> MediaPlaylistDocs(maxSegs)
    [] j.site = "manifest" -> ManifestDocs(maxSegs)
    [] j.site = "player_page" -> PlayerPageDocs
    [] j.site = "lesson_page" -> BOOLEAN
    [] j.site = "fb_player" -> PlayerPageDocs
    [] OTHER -> {}

\* fetchText rejected with e: the innermost enclosing catch takes it
TextThrew(j, e) ==
  CASE j.site = "lesson_page" -> PlayerStage([j EXCEPT !.thrown = "none"])
    [] j.site = "fb_player" -> FinishFallback([j EXCEPT !.thrown = "none"])
    [] j.site = "manifest" -> ManifestResolverThrew(j, e)
    [] OTHER -> JobCatch(j, e)

\* how a pending fetch settles: a fetch whose signal is aborted rejects with
\* AbortError, any other fetch resolves or fails in the ordinary way
FetchSettles(aborted) == IF aborted THEN {"AbortError"} ELSE {"ok", "NetworkError"}

\* ------------------------------------------------------------ the state
\* ------------------------------ the background worker's classification
NoKey == [mediaKey |-> "", resolution |-> "", sourceType |-> "none"]

\* a classification that keeps the resolution in the key
extractCustomMediaInfoFromPath_WholeTail(pathname) ==
  LET marker == <<"api", "playlist", "media">>
      found == Occurrences(pathname, marker)
      tail == SubSeq(pathname, First(found) + Len(marker), Len(pathname))
  IN IF found = {} \/ MatchKeyResolution(tail).key = "" THEN NoKey
     ELSE [mediaKey |-> Join(StripSlash(tail)),
           resolution |-> MatchKeyResolution(tail).resolution, sourceType |-> "custom"]

\* extractCustomMediaInfoFromPath of the background worker
extractCustomMediaInfoFromPath(pathname) ==
  LET marker == <<"api", "playlist", "media">>
      found == Occurrences(pathname, marker)
      tail == SubSeq(pathname, First(found) + Len(marker), Len(pathname))
      tailMatch == MatchKeyResolution(tail)
  IN IF found = {} THEN NoKey
     ELSE IF tailMatch.key = "" THEN NoKey
     ELSE [mediaKey |-> tailMatch.key, resolution |-> tailMatch.resolution,
           sourceType |-> "custom"]

\* extractVimeoMediaInfoFromParsedUrl of the background worker
backgroundVimeoMediaInfo(parsed) ==
  LET path == parsed.pathname
      isVimeoPlaylistJson ==
        /\ isVimeoCdnHost(parsed.hostname)
        /\ Occurrences(path, <<"v2", "playlist", "av">>) # {}
        /\ path # <<>>
        /\ path[Len(path)] = "playlist.json"
      videoAt == {n \in 1 .. Len(path) - 1 : path[n] = "video" /\ path[n + 1] \in Digits}
      eidAt == {n \in 1 .. Len(path) - 1 : path[n] \in EidSegments}
      mediaSeed ==
        IF videoAt # {} THEN path[First(videoAt) + 1]
        ELSE IF parsed.videoId # "" THEN parsed.videoId
        ELSE IF eidAt # {} THEN path[First(eidAt)]
        ELSE "/" \o Join(path)
  IN IF ~isVimeoPlaylistJson THEN NoKey
     ELSE [mediaKey |-> "vimeo:" \o mediaSeed, resolution |-> "adaptive",
           sourceType |-> "vimeo"]

\* extractVimeoPlayerPageInfoFromParsedUrl of the background worker
backgroundVimeoPlayerPageInfo(parsed) ==
  LET path == StripSlash(parsed.pathname)
  IN IF parsed.hostname # <<"player", "vimeo", "com">> THEN NoKey
     ELSE IF ~(Len(path) = 2 /\ path[1] = "video" /\ path[2] \in Digits) THEN NoKey
     ELSE [mediaKey |-> "vimeo:" \o path[2], resolution |-> "adaptive",
           sourceType |-> "vimeo-player-page"]

deriveMediaInfoFromUrl(u) ==
  LET parsed == ParsedUrl(u)
  IN IF extractCustomMediaInfoFromPath(parsed.pathname) # NoKey
     THEN extractCustomMediaInfoFromPath(parsed.pathname)
     ELSE IF backgroundVimeoMediaInfo(parsed) # NoKey
          THEN backgroundVimeoMediaInfo(parsed)
          ELSE backgroundVimeoPlayerPageInfo(parsed)

\* getMediaKeyFromUrl of the background worker: the URL itself when the
\* classification fails
getMediaKeyFromUrl(u) ==
  IF deriveMediaInfoFromUrl(u) = NoKey THEN u ELSE deriveMediaInfoFromUrl(u).mediaKey

\* the captured item of a URL as normalizeCapturedItems stores it: with the
\* key of the background worker's classification, without one when it fails
StoredItem(u) == [url |-> u, mediaKey |-> deriveMediaInfoFromUrl(u).mediaKey]

\* extractMediaInfoFromUrl of the popup: the custom pattern only
popupMediaKey(u) == extractCustomMediaInfoFromPath(ParsedUrl(u).pathname).mediaKey

\* getItemMediaKey of the popup: the key of a start and of a cancel request
getItemMediaKey(item) ==
  IF item.mediaKey # "" THEN item.mediaKey
  ELSE IF popupMediaKey(item.url) # "" THEN popupMediaKey(item.url) ELSE item.url

\* the keys of the stored status map
StatusKeys == {getMediaKeyFromUrl(u) : u \in Urls}

NoSnapshot == [k \in StatusKeys |-> "none"]

Init ==
  /\ activeDownloads = [k \in MediaKeys |-> 0]
  /\ job = [i \in Jobs |-> IdleJob]
  /\ canc = [c \in Cancels |-> IdleCancel]
  /\ statusQ = <<>>
  /\ downloadState = NoSnapshot
  /\ browserDownloads = {}
  /\ downloadCancels = {}
  /\ netBudget = MaxNetFailures
  /\ dropBudget = MaxDrops
  /\ capturedItems = <<>>
  /\ capture = IdleCapture
  /\ offscreen = IdleOffscreen
  /\ cfg = [jobs |-> {1}, cancels |-> Cancels, urls |-> {"custom_a", "vimeo_v", "player_v", "other"},
            options |-> OptionChoices,
            segs |-> MaxSegs]

\* a start that never finds the identity registered
activeDownloadsHas_Never(registry, k) == FALSE

\* activeDownloads.has(mediaKey)
activeDownloadsHas(registry, k) == registry[k] # 0

\* a lookup that falls back to any registered job
activeDownloadsGet_AnyJob(registry, k) ==
  IF registry[k] # 0 THEN registry[k]
  ELSE IF \E x \in MediaKeys : registry[x] # 0
       THEN registry[CHOOSE x \in MediaKeys : registry[x] # 0]
       ELSE 0

\* activeDownloads.get(mediaKey): 0 stands for undefined
activeDownloadsGet(registry, k) == registry[k]

\* activeDownloads.set(mediaKey, job)
activeDownloadsSet(registry, k, i) == [registry EXCEPT ![k] = i]

\* a finally block that leaves the entry in place
activeDownloadsDelete_Kept(registry, k) == registry

\* a delete that empties the registry
activeDownloadsDelete_All(m, k) == [x \in DOMAIN m |-> 0]

\* activeDownloads.delete(mediaKey) of the finally block
activeDownloadsDelete(registry, k) == [registry EXCEPT ![k] = 0]

\* reportStatus: the patch of process `from` on its way to the status store
StatusMessage(k, state, from) ==
  [key |-> k, state |-> state, from |-> from, phase |-> "sent", snap |-> NoSnapshot]

\* the states of a terminal patch
TerminalStates == {"success", "error", "cancelled"}

\* a job's step ends: its record is stored and its patch, if any, is sent;
\* terminals counts the terminal patches the job has sent
Settle(i, r) ==
  /\ job' = [job EXCEPT ![i] =
       [r EXCEPT !.out = "none", !.wait = (r.out # "none"),
                 !.terminals = IF r.out \in TerminalStates THEN @ + 1 ELSE @]]
  /\ statusQ' = IF r.out = "none" THEN statusQ
                ELSE Append(statusQ, StatusMessage(r.mediaKey, r.out, <<"job", i>>))

\* -------------------------------------------------------- startDownloadJob
\* the body of startDownloadJob up to its first await
StartJob(i, u, o) ==
  /\ LET info == extractMediaInfoFromUrl(u)
         j0 == [IdleJob EXCEPT !.url = u, !.mediaKey = info.mediaKey,
                               !.sourceType = info.sourceType, !.options = o]
     IN IF info = NoInfo
        THEN /\ job' = [job EXCEPT ![i] = [j0 EXCEPT !.pc = "rejected"]]
             /\ UNCHANGED <<activeDownloads, statusQ>>
        ELSE IF activeDownloadsHas(activeDownloads, info.mediaKey)
             THEN /\ Settle(i, ReportRunning(j0, "dup_report"))
                  /\ UNCHANGED activeDownloads
             ELSE /\ activeDownloads' = activeDownloadsSet(activeDownloads, info.mediaKey, i)
                  /\ Settle(i, ReportRunning(j0, "rep_resolving"))
  /\ UNCHANGED <<canc, downloadState, browserDownloads, downloadCancels, netBudget,
                 dropBudget, cfg, capturedItems, capture, offscreen>>

\* OFFSCREEN_START_DOWNLOAD arrives at the offscreen document
startDownloadJob(i, u, o) ==
  /\ job[i].pc = "idle"
  /\ i \in cfg.jobs
  /\ \A h \in Jobs : h < i => job[h].pc # "idle"
  /\ u \in cfg.urls
  /\ o \in OptionsFor(u) \cap cfg.options
  /\ StartJob(i, u, o)

\* ------------------------------------ START_DOWNLOAD (background worker)
\* the handler up to its first await: the "Queued..." patch under the key
\* getMediaKeyFromUrl gives
START_DOWNLOAD(i, u, o) ==
  /\ job[i].pc = "idle"
  /\ i \in cfg.jobs
  /\ \A h \in Jobs : h < i => job[h].pc # "idle"
  /\ u \in cfg.urls
  /\ o \in OptionsFor(u) \cap cfg.options
  /\ Settle(i, [IdleJob EXCEPT !.pc = "queued", !.url = u, !.options = o,
                               !.mediaKey = getMediaKeyFromUrl(u), !.out = "running"])
  /\ UNCHANGED <<activeDownloads, canc, downloadState, browserDownloads,
                 downloadCancels, netBudget, dropBudget, cfg, capturedItems, capture, offscreen>>

\* the patch is stored, the offscreen document is there and receives
\* OFFSCREEN_START_DOWNLOAD: startDownloadJob runs, its rejection is only
\* logged, and the handler answers ok
OFFSCREEN_START_DOWNLOAD(i) ==
  /\ job[i].pc = "queued"
  /\ ~job[i].wait
  /\ StartJob(i, job[i].url, job[i].options)

\* ensureOffscreenDocument or the message to the offscreen document fails:
\* the catch of the handler stores the "Failed to start download" error
StartFailed(i) ==
  /\ job[i].pc = "queued"
  /\ ~job[i].wait
  /\ Settle(i, [job[i] EXCEPT !.pc = "start_failed", !.outcome = "error",
                              !.err = "StartFailed", !.out = "error"])
  /\ UNCHANGED <<activeDownloads, canc, downloadState, browserDownloads,
                 downloadCancels, netBudget, dropBudget, cfg, capturedItems, capture, offscreen>>

\* the duplicate start returns after its "already in progress" patch
DuplicateReturns(i) ==
  /\ job[i].pc = "dup_report"
  /\ ~job[i].wait
  /\ job' = [job EXCEPT ![i].pc = "dup_done"]
  /\ UNCHANGED <<activeDownloads, canc, statusQ, downloadState, browserDownloads,
                 downloadCancels, netBudget, dropBudget, cfg, capturedItems, capture, offscreen>>

\* the pipeline goes on after a running-state patch
PatchAcked(i) ==
  /\ job[i].pc \in RunningPatchLabels
  /\ ~job[i].wait
  /\ Settle(i, AfterPatch(job[i]))
  /\ UNCHANGED <<activeDownloads, canc, downloadState, browserDownloads,
                 downloadCancels, netBudget, dropBudget, cfg, capturedItems, capture, offscreen>>

\* a fetchText resolves with a document
TextArrives(i, doc) ==
  /\ job[i].pc = "fetch_text"
  /\ "ok" \in FetchSettles(job[i].aborted)
  /\ doc \in TextDocs(job[i], cfg.segs)
  /\ Settle(i, TextFetched(job[i], doc))
  /\ UNCHANGED <<activeDownloads, canc, downloadState, browserDownloads,
                 downloadCancels, netBudget, dropBudget, cfg, capturedItems, capture, offscreen>>

\* a fetchText fails: a transport error or a non-2xx status
TextFails(i) ==
  /\ job[i].pc = "fetch_text"
  /\ "NetworkError" \in FetchSettles(job[i].aborted)
  /\ netBudget > 0
  /\ netBudget' = netBudget - 1
  /\ Settle(i, TextThrew(Thrown(job[i], "FetchFailed"), "FetchFailed"))
  /\ UNCHANGED <<activeDownloads, canc, downloadState, browserDownloads,
                 downloadCancels, dropBudget, cfg, capturedItems, capture, offscreen>>

\* a pending fetch of an aborted job rejects with AbortError
FetchAborted(i) ==
  /\ job[i].pc \in {"fetch_text", "seg_fetch"}
  /\ "AbortError" \in FetchSettles(job[i].aborted)
  /\ Settle(i, IF job[i].pc = "fetch_text"
               THEN TextThrew(Thrown(job[i], "AbortError"), "AbortError")
               ELSE SegmentStep(SegmentAttemptFailed(job[i], "AbortError")))
  /\ UNCHANGED <<activeDownloads, canc, downloadState, browserDownloads,
                 downloadCancels, netBudget, dropBudget, cfg, capturedItems, capture, offscreen>>

\* an attempt of the segment fetcher returns the bytes
SegmentArrives(i) ==
  /\ job[i].pc = "seg_fetch"
  /\ "ok" \in FetchSettles(job[i].aborted)
  /\ Settle(i, SegmentReturned(job[i]))
  /\ UNCHANGED <<activeDownloads, canc, downloadState, browserDownloads,
                 downloadCancels, netBudget, dropBudget, cfg, capturedItems, capture, offscreen>>

\* an attempt of the segment fetcher fails
SegmentFails(i) ==
  /\ job[i].pc = "seg_fetch"
  /\ "NetworkError" \in FetchSettles(job[i].aborted)
  /\ netBudget > 0
  /\ netBudget' = netBudget - 1
  /\ Settle(i, SegmentStep(SegmentAttemptFailed(job[i], "NetworkError")))
  /\ UNCHANGED <<activeDownloads, canc, downloadState, browserDownloads,
                 downloadCancels, dropBudget, cfg, capturedItems, capture, offscreen>>

\* the backoff sleep settles
SleepEnds(i) ==
  /\ job[i].pc = "seg_sleep"
  /\ Settle(i, SegmentStep(SleepSettled(job[i])))
  /\ UNCHANGED <<activeDownloads, canc, downloadState, browserDownloads,
                 downloadCancels, netBudget, dropBudget, cfg, capturedItems, capture, offscreen>>

\* --------------------------------------------- the chrome.downloads side
\* BROWSER_DOWNLOAD_START answered with a download id (the job's index)
BrowserDownloadStarts(i) ==
  /\ job[i].pc = "save_start"
  /\ browserDownloads' = browserDownloads \cup {i}
  /\ Settle(i, SaveReturned(job[i], i))
  /\ UNCHANGED <<activeDownloads, canc, downloadState, downloadCancels, netBudget,
                 dropBudget, cfg, capturedItems, capture, offscreen>>

\* BROWSER_DOWNLOAD_START answered not ok, or the message failed
BrowserDownloadRejected(i) ==
  /\ job[i].pc = "save_start"
  /\ Settle(i, SaveFailed(job[i]))
  /\ UNCHANGED <<activeDownloads, canc, downloadState, browserDownloads,
                 downloadCancels, netBudget, dropBudget, cfg, capturedItems, capture, offscreen>>

\* the finally block: the job reported its terminal patch and leaves the registry
JobDone(j) ==
  [IdleJob EXCEPT !.pc = "done", !.url = j.url, !.mediaKey = j.mediaKey,
                  !.sourceType = j.sourceType, !.cancelled = j.cancelled,
                  !.aborted = j.aborted, !.downloadId = j.downloadId,
                  !.fetched = j.fetched,
                  !.outcome = j.outcome, !.err = j.err, !.terminals = j.terminals]

Finally(i) ==
  /\ job[i].pc = "rep_terminal"
  /\ ~job[i].wait
  /\ activeDownloads' = activeDownloadsDelete(activeDownloads, job[i].mediaKey)
  /\ job' = [job EXCEPT ![i] = JobDone(job[i])]
  /\ UNCHANGED <<canc, statusQ, downloadState, browserDownloads, downloadCancels,
                 netBudget, dropBudget, cfg, capturedItems, capture, offscreen>>

\* -------------------------------------------------------- cancelDownloadJob
\* Number.isFinite(downloadId) of cancelChromeDownloadIfNeeded
isFiniteDownloadId(id) == id # 0

\* job.cancelled = true; job.abortController.abort(): the abort event rejects
\* a backoff sleep that is pending at this moment
AbortJob(j) ==
  [j EXCEPT !.cancelled = TRUE, !.aborted = TRUE,
            !.woken = IF ~j.aborted /\ j.pc = "seg_sleep" THEN TRUE ELSE @]

cancelDownloadJob(c, k) ==
  /\ canc[c].pc = "idle"
  /\ c \in cfg.cancels
  /\ \A h \in Cancels : h < c => canc[h].pc # "idle"
  /\ k \in MediaKeys
  /\ LET t == activeDownloadsGet(activeDownloads, k)
     IN IF t = 0
        THEN /\ canc' = [canc EXCEPT ![c] = [IdleCancel EXCEPT !.pc = "done", !.mediaKey = k]]
             /\ UNCHANGED <<job, statusQ>>
        ELSE /\ job' = [job EXCEPT ![t] = AbortJob(@)]
             /\ IF isFiniteDownloadId(job[t].downloadId)
                THEN /\ canc' = [canc EXCEPT ![c] =
                          [IdleCancel EXCEPT !.pc = "save_cancel", !.mediaKey = k,
                                             !.target = t, !.downloadId = job[t].downloadId]]
                     /\ UNCHANGED statusQ
                ELSE /\ canc' = [canc EXCEPT ![c] =
                          [IdleCancel EXCEPT !.pc = "report", !.mediaKey = k,
                                             !.target = t, !.wait = TRUE]]
                     /\ statusQ' = Append(statusQ,
                                          StatusMessage(k, "cancel_requested", <<"cancel", c>>))
  /\ UNCHANGED <<activeDownloads, downloadState, browserDownloads, downloadCancels,
                 netBudget, dropBudget, cfg, capturedItems, capture, offscreen>>

Processes == {<<"job", i>> : i \in Jobs} \cup {<<"cancel", c>> : c \in Cancels}

AwaitsDownloadCancel(p) ==
  IF p[1] = "job" THEN job[p[2]].pc = "save_cancel" ELSE canc[p[2]].pc = "save_cancel"

\* what chrome.downloads.cancel can do: resolve, or reject with one of the
\* messages the handler knows, or with another message
DownloadsCancelAnswers == {"ok", "InvalidDownloadId", "NotInProgress", "OtherError"}

\* the BROWSER_DOWNLOAD_CANCEL handler of the background worker: TRUE when it
\* responds ok: true
BROWSER_DOWNLOAD_CANCEL(answer) ==
  answer \in {"ok", "InvalidDownloadId", "NotInProgress"}

\* a cancelChromeDownloadIfNeeded that lets the error of the runtime message out
cancelChromeDownloadIfNeeded_Rethrow(answer) ==
  IF BROWSER_DOWNLOAD_CANCEL(answer) THEN "resolved" ELSE "threw"

\* cancelChromeDownloadIfNeeded for a finite id: sendRuntimeMessage throws on
\* a response that is not ok, and the catch logs or ignores every error
cancelChromeDownloadIfNeeded(answer) == "resolved"

\* the save-cancel call of process p settles: the canceller goes on to its
\* cancel_requested patch, a job that cancels its own download throws
BrowserDownloadCancel(p, answer) ==
  /\ p \in Processes
  /\ AwaitsDownloadCancel(p)
  /\ downloadCancels' = downloadCancels
       \cup {IF p[1] = "job" THEN job[p[2]].downloadId ELSE canc[p[2]].downloadId}
  /\ IF p[1] = "job"
     THEN /\ Settle(p[2], JobCatch(job[p[2]],
                 IF cancelChromeDownloadIfNeeded(answer) = "resolved"
                 THEN "CancelledError" ELSE "RuntimeMessageFailed"))
          /\ UNCHANGED canc
     ELSE IF cancelChromeDownloadIfNeeded(answer) = "resolved"
          THEN /\ canc' = [canc EXCEPT ![p[2]].pc = "report", ![p[2]].wait = TRUE,
                                       ![p[2]].answer = answer]
               /\ statusQ' = Append(statusQ, StatusMessage(canc[p[2]].mediaKey,
                                                           "cancel_requested", p))
               /\ UNCHANGED job
          ELSE /\ canc' = [canc EXCEPT ![p[2]].pc = "failed", ![p[2]].answer = answer]
               /\ UNCHANGED <<job, statusQ>>
  /\ UNCHANGED <<activeDownloads, downloadState, browserDownloads, netBudget,
                 dropBudget, cfg, capturedItems, capture, offscreen>>

\* cancelDownloadJob returns true after its patch
CancelReturns(c) ==
  /\ canc[c].pc = "report"
  /\ ~canc[c].wait
  /\ canc' = [canc EXCEPT ![c].pc = "done", ![c].found = TRUE, ![c].answer = "none"]
  /\ UNCHANGED <<activeDownloads, job, statusQ, downloadState, browserDownloads,
                 downloadCancels, netBudget, dropBudget, cfg, capturedItems, capture, offscreen>>

\* ------------------------------------------- updateDownloadState (store)
\* the sender of a status message resumes
Release(p) ==
  /\ job' = IF p[1] = "job" THEN [job EXCEPT ![p[2]].wait = FALSE] ELSE job
  /\ canc' = IF p[1] = "cancel" THEN [canc EXCEPT ![p[2]].wait = FALSE] ELSE canc

\* a reportStatus that lets the failure of sendMessage out to the job's catch
reportStatusFailed_Rethrow(j) == JobCatch(j, "ReportFailed")

\* the catch of reportStatus: the failure is logged, the job is as it was
reportStatusFailed(j) == j

\* the sender of a status message that failed resumes
ReleaseFailed(p) ==
  /\ job' = IF p[1] = "job"
            THEN [job EXCEPT ![p[2]] = [reportStatusFailed(job[p[2]]) EXCEPT !.wait = FALSE]]
            ELSE job
  /\ canc' = IF p[1] = "cancel" THEN [canc EXCEPT ![p[2]].wait = FALSE] ELSE canc

RemoveAt(q, n) == [x \in 1 .. Len(q) - 1 |-> IF x < n THEN q[x] ELSE q[x + 1]]

\* getDownloadStateMap: the handler of the n-th pending update reads the map
StatusRead(n) ==
  /\ n \in 1 .. Len(statusQ)
  /\ statusQ[n].phase = "sent"
  /\ \A m \in 1 .. n - 1 : statusQ[m].phase = "read"
  /\ statusQ' = [statusQ EXCEPT ![n].phase = "read", ![n].snap = downloadState]
  /\ UNCHANGED <<activeDownloads, job, canc, downloadState, browserDownloads,
                 downloadCancels, netBudget, dropBudget, cfg, capturedItems, capture, offscreen>>

\* the merge {...current, ...patch} into the map that was read
MergePatch(snap, k, state) == [snap EXCEPT ![k] = state]

\* chrome.storage.session.set: the oldest pending update writes its map back
StatusWrite ==
  /\ Len(statusQ) > 0
  /\ statusQ[1].phase = "read"
  /\ downloadState' = MergePatch(statusQ[1].snap, statusQ[1].key, statusQ[1].state)
  /\ statusQ' = Tail(statusQ)
  /\ Release(statusQ[1].from)
  /\ UNCHANGED <<activeDownloads, browserDownloads, downloadCancels, netBudget,
                 dropBudget, cfg, capturedItems, capture, offscreen>>

\* chrome.runtime.sendMessage of reportStatus fails: the patch is lost, the
\* failure is logged and the sender goes on
StatusDropped(n) ==
  /\ n \in 1 .. Len(statusQ)
  /\ statusQ[n].phase = "sent"
  /\ dropBudget > 0
  /\ dropBudget' = dropBudget - 1
  /\ statusQ' = RemoveAt(statusQ, n)
  /\ ReleaseFailed(statusQ[n].from)
  /\ UNCHANGED <<activeDownloads, downloadState, browserDownloads, downloadCancels,
                 netBudget, cfg, capturedItems, capture, offscreen>>

\* --------------------------------------------------------- specification
\* the steps of the job manager, its collaborators and the status store
JobSteps ==
  \/ \E i \in Jobs : PatchAcked(i)
  \/ \E i \in Jobs : \E doc \in TextDocs(job[i], cfg.segs) : TextArrives(i, doc)
  \/ \E i \in Jobs : TextFails(i)
  \/ \E i \in Jobs : FetchAborted(i)
  \/ \E i \in Jobs : SegmentArrives(i)
  \/ \E i \in Jobs : SegmentFails(i)
  \/ \E i \in Jobs : SleepEnds(i)
  \/ \E i \in Jobs : BrowserDownloadStarts(i)
  \/ \E i \in Jobs : BrowserDownloadRejected(i)
  \/ \E i \in Jobs : Finally(i)
  \/ \E c \in Cancels, k \in MediaKeys : cancelDownloadJob(c, k)
  \/ \E p \in Processes : \E a \in DownloadsCancelAnswers : BrowserDownloadCancel(p, a)
  \/ \E c \in Cancels : CancelReturns(c)
  \/ \E n \in 1 .. Len(statusQ) : StatusRead(n)
  \/ StatusWrite

JobManagerNext ==
  \/ \E i \in Jobs, u \in Urls : \E o \in OptionChoices : startDownloadJob(i, u, o)
  \/ JobSteps

Next ==
  \/ JobManagerNext
  \/ \E n \in 1 .. Len(statusQ) : StatusDropped(n)

\* one start request with every source type and option, one cancel request,
\* network failures and lost status messages
Spec == Init /\ [][Next]_vars

\* two start requests over two custom media keys and one cancel request;
\* every status message is delivered
InitRegistry ==
  /\ activeDownloads = [k \in MediaKeys |-> 0]
  /\ job = [i \in Jobs |-> IdleJob]
  /\ canc = [c \in Cancels |-> IdleCancel]
  /\ statusQ = <<>>
  /\ downloadState = NoSnapshot
  /\ browserDownloads = {}
  /\ downloadCancels = {}
  /\ netBudget = RegistryMaxNetFailures
  /\ dropBudget = 0
  /\ capturedItems = <<>>
  /\ capture = IdleCapture
  /\ offscreen = IdleOffscreen
  /\ cfg = [jobs |-> Jobs, cancels |-> Cancels, urls |-> {"custom_a", "custom_b", "other"},
            options |-> {NoOptions}, segs |-> RegistryMaxSegs]

NextRegistry ==
  \/ JobManagerNext
  \/ \E i \in Jobs : DuplicateReturns(i)

SpecRegistry == InitRegistry /\ [][NextRegistry]_vars

\* the steps that need no new request: awaited calls that return or fail,
\* timers that fire, handlers that resume
Progress ==
  \/ \E i \in Jobs : DuplicateReturns(i) \/ PatchAcked(i) \/ Finally(i)
  \/ \E i \in Jobs : \E doc \in TextDocs(job[i], cfg.segs) : TextArrives(i, doc)
  \/ \E i \in Jobs : FetchAborted(i) \/ SegmentArrives(i) \/ SleepEnds(i)
  \/ \E i \in Jobs : BrowserDownloadStarts(i)
  \/ \E p \in Processes : \E a \in DownloadsCancelAnswers : BrowserDownloadCancel(p, a)
  \/ \E c \in Cancels : CancelReturns(c)
  \/ \E n \in 1 .. Len(statusQ) : StatusRead(n)
  \/ StatusWrite

\* two start requests for one custom media key and one cancel request
InitLive ==
  /\ activeDownloads = [k \in MediaKeys |-> 0]
  /\ job = [i \in Jobs |-> IdleJob]
  /\ canc = [c \in Cancels |-> IdleCancel]
  /\ statusQ = <<>>
  /\ downloadState = NoSnapshot
  /\ browserDownloads = {}
  /\ downloadCancels = {}
  /\ netBudget = LiveMaxNetFailures
  /\ dropBudget = 0
  /\ capturedItems = <<>>
  /\ capture = IdleCapture
  /\ offscreen = IdleOffscreen
  /\ cfg = [jobs |-> Jobs, cancels |-> Cancels, urls |-> {"custom_a"},
            options |-> {NoOptions}, segs |-> LiveMaxSegs]

\* the runs in which every awaited call eventually returns or fails and
\* every timer eventually fires; requests may or may not arrive
SpecLive == InitLive /\ [][NextRegistry]_vars /\ WF_vars(Progress)

\* one download of a custom playlist with one segment, on a network that may
\* fail more often than the retry budget of a segment allows
InitFetch ==
  /\ activeDownloads = [k \in MediaKeys |-> 0]
  /\ job = [i \in Jobs |-> IdleJob]
  /\ canc = [c \in Cancels |-> IdleCancel]
  /\ statusQ = <<>>
  /\ downloadState = NoSnapshot
  /\ browserDownloads = {}
  /\ downloadCancels = {}
  /\ netBudget = FetchMaxFailures
  /\ dropBudget = 0
  /\ capturedItems = <<>>
  /\ capture = IdleCapture
  /\ offscreen = IdleOffscreen
  /\ cfg = [jobs |-> {1}, cancels |-> Cancels, urls |-> {"custom_a", "vimeo_v"},
            options |-> {NoOptions}, segs |-> FetchMaxSegs]

SpecFetch == InitFetch /\ [][JobManagerNext]_vars

\* one START_DOWNLOAD request to the background worker, for a custom
\* playlist URL or a URL that no classification rule matches, and one cancel
InitSubmit ==
  /\ activeDownloads = [k \in MediaKeys |-> 0]
  /\ job = [i \in Jobs |-> IdleJob]
  /\ canc = [c \in Cancels |-> IdleCancel]
  /\ statusQ = <<>>
  /\ downloadState = NoSnapshot
  /\ browserDownloads = {}
  /\ downloadCancels = {}
  /\ netBudget = SubmitMaxNetFailures
  /\ dropBudget = 0
  /\ capturedItems = <<>>
  /\ capture = IdleCapture
  /\ offscreen = IdleOffscreen
  /\ cfg = [jobs |-> {1}, cancels |-> Cancels, urls |-> {"custom_a", "other"},
            options |-> {NoOptions}, segs |-> SubmitMaxSegs]

NextSubmit ==
  \/ \E i \in Jobs, u \in Urls : \E o \in OptionChoices : START_DOWNLOAD(i, u, o)
  \/ \E i \in Jobs : OFFSCREEN_START_DOWNLOAD(i)
  \/ \E i \in Jobs : StartFailed(i)
  \/ JobSteps

SpecSubmit == InitSubmit /\ [][NextSubmit]_vars

\* the manifests track selection is tried on: at most one track in muxed,
\* audio_video and audio, up to MaxTracks tracks in video
TracksOf(family, len, audios) ==
  UNION {[1 .. n -> [family : {family}, index : 1 .. len, usable : BOOLEAN,
                     height : 1 .. MaxHeight, audio : audios]] : n \in 0 .. len}

WellIndexed(tracks) == \A n \in 1 .. Len(tracks) : tracks[n].index = n

Manifests ==
  {m \in [muxed : TracksOf("muxed", 1, {FALSE}),
          audio_video : TracksOf("audio_video", 1, {FALSE}),
          video : TracksOf("video", MaxTracks, BOOLEAN),
          audio : {q \in TracksOf("audio", 1, {TRUE}) :
                     \A n \in 1 .. Len(q) : q[n].height = 1}] :
     /\ WellIndexed(m.muxed) /\ WellIndexed(m.audio_video)
     /\ WellIndexed(m.video) /\ WellIndexed(m.audio)}

\* resolveVimeoChunksFromPlaylistJson selects the track of the parsed manifest
SelectTrack(i) ==
  /\ job[i].pc = "select"
  /\ LET r == pickBestVimeoTrackSelection(cfg.manifest)
     IN job' = [job EXCEPT ![i] = [@ EXCEPT !.pc = "selected",
                                            !.selection = r.selection, !.err = r.err]]
  /\ UNCHANGED <<activeDownloads, canc, statusQ, downloadState, browserDownloads,
                 downloadCancels, netBudget, dropBudget, cfg, capturedItems, capture, offscreen>>

InitSelect ==
  /\ activeDownloads = [k \in MediaKeys |-> 0]
  /\ job = [i \in Jobs |-> IF i = 1 THEN [IdleJob EXCEPT !.pc = "select"] ELSE IdleJob]
  /\ canc = [c \in Cancels |-> IdleCancel]
  /\ statusQ = <<>>
  /\ downloadState = NoSnapshot
  /\ browserDownloads = {}
  /\ downloadCancels = {}
  /\ netBudget = 0
  /\ dropBudget = 0
  /\ capturedItems = <<>>
  /\ capture = IdleCapture
  /\ offscreen = IdleOffscreen
  /\ \E m \in Manifests :
       cfg = [jobs |-> {1}, cancels |-> {}, urls |-> {}, options |-> {NoOptions},
              segs |-> 0, manifest |-> m]

NextSelect == \E i \in Jobs : SelectTrack(i)

SpecSelect == InitSelect /\ [][NextSelect]_vars

\* ----------------------------------------------------- quality harness
\* tracks of one family that differ in the fields the comparator reads
MaxQualityTracks == 2

NoField == [x \in {} |-> 0]

Optional(field, values) == {NoField} \cup {[x \in {field} |-> v] : v \in values}

\* a usable muxed track at position n: with a segment list of one or two
\* segments, or with a direct URL only
QualityTracks(n) ==
  {[family |-> "muxed", index |-> n, usable |-> TRUE, audio |-> FALSE]
     @@ h @@ mh @@ b @@ ab @@ bw @@ sg :
       h \in Optional("height", 1 .. MaxHeight), mh \in Optional("max_height", {MaxHeight}),
       b \in Optional("bitrate", {0, 1}), ab \in Optional("avg_bitrate", {2}),
       bw \in Optional("bandwidth", {1}), sg \in Optional("segments", {1, 2})}

QualityLists ==
  UNION {{q \in [1 .. n -> UNION {QualityTracks(x) : x \in 1 .. n}] :
            \A x \in 1 .. n : q[x].index = x} : n \in 1 .. MaxQualityTracks}

InitQuality ==
  /\ activeDownloads = [k \in MediaKeys |-> 0]
  /\ job = [i \in Jobs |-> IF i = 1 THEN [IdleJob EXCEPT !.pc = "select"] ELSE IdleJob]
  /\ canc = [c \in Cancels |-> IdleCancel]
  /\ statusQ = <<>>
  /\ downloadState = NoSnapshot
  /\ browserDownloads = {}
  /\ downloadCancels = {}
  /\ netBudget = 0
  /\ dropBudget = 0
  /\ capturedItems = <<>>
  /\ capture = IdleCapture
  /\ offscreen = IdleOffscreen
  /\ \E q \in QualityLists :
       cfg = [jobs |-> {1}, cancels |-> {}, urls |-> {}, options |-> {NoOptions},
              segs |-> 0,
              manifest |-> [muxed |-> q, audio_video |-> <<>>, video |-> <<>>,
                            audio |-> <<>>]]

SpecQuality == InitQuality /\ [][NextSelect]_vars

\* two start requests over the custom playlist URLs, which differ in their
\* resolution, query string, trailing slash and key; no cancel request and no
\* network failure
InitIdentity ==
  /\ activeDownloads = [k \in MediaKeys |-> 0]
  /\ job = [i \in Jobs |-> IdleJob]
  /\ canc = [c \in Cancels |-> IdleCancel]
  /\ statusQ = <<>>
  /\ downloadState = NoSnapshot
  /\ browserDownloads = {}
  /\ downloadCancels = {}
  /\ netBudget = 0
  /\ dropBudget = 0
  /\ capturedItems = <<>>
  /\ capture = IdleCapture
  /\ offscreen = IdleOffscreen
  /\ cfg = [jobs |-> Jobs, cancels |-> {},
            urls |-> {"custom_a", "custom_a_hd", "custom_a_q", "custom_a_slash",
                      "custom_b", "custom_deep", "custom_nores"},
            options |-> {NoOptions}, segs |-> IdentityMaxSegs]

NextIdentity ==
  \/ \E i \in Jobs, u \in Urls : startDownloadJob(i, u, NoOptions)
  \/ \E i \in Jobs : DuplicateReturns(i)
  \/ \E i \in Jobs : PatchAcked(i)
  \/ \E i \in Jobs : \E doc \in TextDocs(job[i], cfg.segs) : TextArrives(i, doc)
  \/ \E i \in Jobs : SegmentArrives(i)
  \/ \E i \in Jobs : BrowserDownloadStarts(i)
  \/ \E i \in Jobs : BrowserDownloadRejected(i)
  \/ \E i \in Jobs : Finally(i)
  \/ \E n \in 1 .. Len(statusQ) : StatusRead(n)
  \/ StatusWrite

SpecIdentity == InitIdentity /\ [][NextIdentity]_vars

\* ------------------------------------- the segmented-playlist resolver alone
\* A playlist text is the sequence of lines splitPlaylistLines makes of it
\* (trimmed, non-empty).  A line is [t, ref, seg]: t says whether it starts
\* with "#" ("comment", or "map" when it is an #EXT-X-MAP directive with a
\* URI), ref what its reference is ("rel" a relative reference, "abs" an
\* absolute http(s) URL, "other" text that resolves to no http(s) URL), and
\* seg whether isLikelySegmentLine matches it.  The lines of a text are taken
\* to differ from each other, so the line at position n is named by n.
Refs == {"rel", "abs", "other"}

PlaylistLines ==
  {[t |-> "comment", ref |-> "other", seg |-> FALSE]}
    \cup {[t |-> "map", ref |-> r, seg |-> FALSE] : r \in Refs}
    \cup {[t |-> "content", ref |-> r, seg |-> g] : r \in Refs, g \in BOOLEAN}

PlaylistTexts(maxLines) == UNION {[1 .. n -> PlaylistLines] : n \in 0 .. maxLines}

\* a URL is the sequence of what it was resolved from; <<>> stands for null
\* and for every URL that is not http(s)
NoUrl == <<>>

PlaylistUrl == <<"playlist">>

isCommentLine(line) == line.t \in {"comment", "map"}

isLikelySegmentLine(line) == line.seg

\* resolveUrl(line, baseUrl) followed by the isHttpUrl test, for the line at
\* position n: a relative reference is resolved against the base, an
\* absolute one stands for itself
resolveUrl(line, n, baseUrl) ==
  CASE line.ref = "rel" -> Append(baseUrl, n)
    [] line.ref = "abs" -> <<"abs", n>>
    [] OTHER -> NoUrl

\* a test that never sees a direct segment line
hasDirectSegmentLinks_Never(lines) == FALSE

\* mainLines.some((line) => !isCommentLine(line) && isLikelySegmentLine(line))
hasDirectSegmentLinks(lines) ==
  \E n \in 1 .. Len(lines) : ~isCommentLine(lines[n]) /\ isLikelySegmentLine(lines[n])

RECURSIVE LastContentFrom(_, _)
\* the loop of getLastContentLine from position n downwards: the position of
\* the last line that is no comment, 0 for null
LastContentFrom(lines, n) ==
  IF n < 1 THEN 0
  ELSE IF ~isCommentLine(lines[n]) THEN n ELSE LastContentFrom(lines, n - 1)

getLastContentLine(lines) == LastContentFrom(lines, Len(lines))

\* a base that stays the URL of the first document
MediaBaseUrl_First(playlistUrl, secondPlaylistUrl) == playlistUrl

\* mediaBaseUrl = secondPlaylistUrl
MediaBaseUrl(playlistUrl, secondPlaylistUrl) == secondPlaylistUrl

\* an initialization segment that is appended instead
UnshiftInit_Push(segmentUrls, initMapUrl) ==
  IF initMapUrl # NoUrl THEN Append(segmentUrls, initMapUrl) ELSE segmentUrls

\* if (initMapUrl) segmentUrls.unshift(initMapUrl)
UnshiftInit(segmentUrls, initMapUrl) ==
  IF initMapUrl # NoUrl THEN <<initMapUrl>> \o segmentUrls ELSE segmentUrls

RECURSIVE SegmentUrlLoop(_, _, _, _, _)
\* the for loop over mediaLines from position n on, and the unshift after it
SegmentUrlLoop(lines, n, baseUrl, segmentUrls, initMapUrl) ==
  IF n > Len(lines)
  THEN UnshiftInit(segmentUrls, initMapUrl)
  ELSE IF isCommentLine(lines[n])
       THEN IF lines[n].t = "map" /\ resolveUrl(lines[n], n, baseUrl) # NoUrl
            THEN SegmentUrlLoop(lines, n + 1, baseUrl, segmentUrls,
                                resolveUrl(lines[n], n, baseUrl))
            ELSE SegmentUrlLoop(lines, n + 1, baseUrl, segmentUrls, initMapUrl)
       ELSE IF resolveUrl(lines[n], n, baseUrl) = NoUrl
            THEN SegmentUrlLoop(lines, n + 1, baseUrl, segmentUrls, initMapUrl)
            ELSE SegmentUrlLoop(lines, n + 1, baseUrl,
                                Append(segmentUrls, resolveUrl(lines[n], n, baseUrl)),
                                initMapUrl)

\* the resolver from the media lines on: the list, or the error of an empty list
ResolveMediaLines(j, lines, baseUrl) ==
  LET segmentUrls == SegmentUrlLoop(lines, 1, baseUrl, <<>>, NoUrl)
      j1 == [j EXCEPT !.mediaLines = lines, !.mediaBaseUrl = baseUrl]
  IN IF segmentUrls = <<>>
     THEN [j1 EXCEPT !.pc = "pl_error", !.err = "NoSegmentUrls"]
     ELSE [j1 EXCEPT !.pc = "pl_done", !.segmentUrls = segmentUrls]

\* resolveSegmentUrlsFromPlaylistUrl(playlistUrl) is called: the first fetchText
PlaylistResolveStarts(i) ==
  /\ job[i].pc = "pl_start"
  /\ job' = [job EXCEPT ![i] = [@ EXCEPT !.pc = "pl_main",
                                         !.fetchedUrls = <<PlaylistUrl>>]]
  /\ UNCHANGED <<activeDownloads, canc, statusQ, downloadState, browserDownloads,
                 downloadCancels, netBudget, dropBudget, cfg, capturedItems, capture, offscreen>>

\* the first text arrived: its own lines are the media lines, or its last
\* content line names the second document
PlaylistMainArrives(i) ==
  /\ job[i].pc = "pl_main"
  /\ LET mainLines == cfg.playlist
         tail == getLastContentLine(mainLines)
         secondPlaylistUrl == resolveUrl(mainLines[tail], tail, PlaylistUrl)
     IN job' = [job EXCEPT ![i] =
          IF hasDirectSegmentLinks(mainLines)
          THEN ResolveMediaLines(@, mainLines, PlaylistUrl)
          ELSE IF tail = 0
               THEN [@ EXCEPT !.pc = "pl_error", !.err = "NoMediaReference"]
               ELSE IF secondPlaylistUrl = NoUrl
                    THEN [@ EXCEPT !.pc = "pl_error", !.err = "InvalidTail"]
                    ELSE [@ EXCEPT !.pc = "pl_media",
                                   !.fetchedUrls = Append(@, secondPlaylistUrl)]]
  /\ UNCHANGED <<activeDownloads, canc, statusQ, downloadState, browserDownloads,
                 downloadCancels, netBudget, dropBudget, cfg, capturedItems, capture, offscreen>>

\* the second text arrived
PlaylistMediaArrives(i, text) ==
  /\ job[i].pc = "pl_media"
  /\ job' = [job EXCEPT ![i] =
       ResolveMediaLines(@, text, MediaBaseUrl(PlaylistUrl, @.fetchedUrls[2]))]
  /\ UNCHANGED <<activeDownloads, canc, statusQ, downloadState, browserDownloads,
                 downloadCancels, netBudget, dropBudget, cfg, capturedItems, capture, offscreen>>

InitPlaylist ==
  /\ activeDownloads = [k \in MediaKeys |-> 0]
  /\ job = [i \in Jobs |-> IF i = 1 THEN [IdleJob EXCEPT !.pc = "pl_start"] ELSE IdleJob]
  /\ canc = [c \in Cancels |-> IdleCancel]
  /\ statusQ = <<>>
  /\ downloadState = NoSnapshot
  /\ browserDownloads = {}
  /\ downloadCancels = {}
  /\ netBudget = 0
  /\ dropBudget = 0
  /\ capturedItems = <<>>
  /\ capture = IdleCapture
  /\ offscreen = IdleOffscreen
  /\ \E text \in PlaylistTexts(MaxLines) :
       cfg = [jobs |-> {1}, cancels |-> {}, urls |-> {}, options |-> {NoOptions},
              segs |-> 0, playlist |-> text]

NextPlaylist ==
  \/ \E i \in Jobs : PlaylistResolveStarts(i)
  \/ \E i \in Jobs : PlaylistMainArrives(i)
  \/ \E i \in Jobs : \E text \in PlaylistTexts(MaxMediaLines) : PlaylistMediaArrives(i, text)

SpecPlaylist == InitPlaylist /\ [][NextPlaylist]_vars

\* ------------------------------------------------ the file name alone
\* A string is a sequence of pieces [k, n]: n characters that are all text
\* ("text"), all whitespace ("space") or all among <>:"/\|?* and the control
\* characters ("illegal").
TextPiece(n) == [k |-> "text", n |-> n]

SpacePiece(n) == [k |-> "space", n |-> n]

RECURSIVE StrLen(_)
StrLen(str) == IF str = <<>> THEN 0 ELSE str[1].n + StrLen(Tail(str))

RECURSIVE Slice(_, _)
\* str.slice(0, limit)
Slice(str, limit) ==
  IF str = <<>> \/ limit <= 0 THEN <<>>
  ELSE IF str[1].n <= limit
       THEN <<str[1]>> \o Slice(Tail(str), limit - str[1].n)
       ELSE <<[k |-> str[1].k, n |-> limit]>>

\* .replace(/[<>:"/\\|?*\u0000-\u001f]/g, " ")
ReplaceIllegal(str) ==
  [x \in 1 .. Len(str) |-> IF str[x].k = "illegal" THEN SpacePiece(str[x].n) ELSE str[x]]

RECURSIVE CollapseSpaces(_)
\* .replace(/\s+/g, " "); neighbouring pieces of text are written as one
CollapseSpaces(str) ==
  IF str = <<>> THEN <<>>
  ELSE IF Len(str) = 1
       THEN IF str[1].k = "space" THEN <<SpacePiece(1)>> ELSE str
       ELSE IF str[1].k = str[2].k
            THEN CollapseSpaces(<<[k |-> str[1].k, n |-> str[1].n + str[2].n]>>
                                  \o SubSeq(str, 3, Len(str)))
            ELSE (IF str[1].k = "space" THEN <<SpacePiece(1)>> ELSE <<str[1]>>)
                   \o CollapseSpaces(Tail(str))

\* .trim()
Trim(str) ==
  LET a == IF str # <<>> /\ str[1].k = "space" THEN Tail(str) ELSE str
  IN IF a # <<>> /\ a[Len(a)].k = "space" THEN SubSeq(a, 1, Len(a) - 1) ELSE a

sanitizeFilePart(str) == Trim(CollapseSpaces(ReplaceIllegal(str)))

\* a name that is not cut
TruncateName_None(str) == str

\* .slice(0, 180)
TruncateName(str) == Slice(str, MaxNameLength)

\* buildDownloadFilename for the videoId of the classified URL, the lesson
\* title and the extension; an extension is [dot, name], dot for a leading "."
buildDownloadFilename(mediaVideoId, lessonTitle, fileExtension) ==
  LET sanitizedId == sanitizeFilePart(mediaVideoId)
      videoId == IF StrLen(sanitizedId) > MaxVideoIdLength
                 THEN Slice(sanitizedId, MaxVideoIdLength) ELSE sanitizedId
      title == sanitizeFilePart(lessonTitle)
      rawName == IF title # <<>> THEN title \o <<SpacePiece(1)>> \o videoId ELSE videoId
      normalized == IF TruncateName(sanitizeFilePart(rawName)) = <<>>
                    THEN <<TextPiece(5)>>
                    ELSE TruncateName(sanitizeFilePart(rawName))
      ext == IF fileExtension.name = "" /\ ~fileExtension.dot THEN "ts"
             ELSE fileExtension.name
  IN [name |-> normalized, ext |-> IF ext = "" THEN "ts" ELSE ext]

\* the strings of up to maxPieces pieces with the given kinds and lengths
Strings(kinds, lengths, maxPieces) ==
  UNION {[1 .. m -> {[k |-> c, n |-> n] : c \in kinds, n \in lengths}] : m \in 0 .. maxPieces}

\* the extensions the pipeline determines, none (""), and a leading dot
FileExtensions ==
  {[dot |-> d, name |-> e] : d \in BOOLEAN, e \in {"", "ts", "mp4", "m3u8", "bin"}}

\* startDownloadJob builds the file name before it saves
BuildsFilename(i) ==
  /\ job[i].pc = "fn_start"
  /\ job' = [job EXCEPT ![i] =
       [@ EXCEPT !.pc = "fn_done",
                 !.filename = buildDownloadFilename(cfg.videoId, cfg.title, cfg.extension)]]
  /\ UNCHANGED <<activeDownloads, canc, statusQ, downloadState, browserDownloads,
                 downloadCancels, netBudget, dropBudget, cfg, capturedItems, capture, offscreen>>

InitFilename ==
  /\ activeDownloads = [k \in MediaKeys |-> 0]
  /\ job = [i \in Jobs |-> IF i = 1 THEN [IdleJob EXCEPT !.pc = "fn_start"] ELSE IdleJob]
  /\ canc = [c \in Cancels |-> IdleCancel]
  /\ statusQ = <<>>
  /\ downloadState = NoSnapshot
  /\ browserDownloads = {}
  /\ downloadCancels = {}
  /\ netBudget = 0
  /\ dropBudget = 0
  /\ capturedItems = <<>>
  /\ capture = IdleCapture
  /\ offscreen = IdleOffscreen
  /\ \E title \in Strings({"text", "space", "illegal"}, {1, 90, 179}, MaxTitlePieces) :
       \E videoId \in Strings({"text", "illegal"}, {1, 50}, MaxIdPieces) \ {<<>>} :
         \E e \in FileExtensions :
           cfg = [jobs |-> {1}, cancels |-> {}, urls |-> {}, options |-> {NoOptions},
                  segs |-> 0, title |-> title, videoId |-> videoId, extension |-> e]

NextFilename == \E i \in Jobs : BuildsFilename(i)

SpecFilename == InitFilename /\ [][NextFilename]_vars

\* ------------------------------------------ the player configuration alone
\* The cdns object of a dash or hls block, in the order Object.values gives.
CdnNames == <<"akamai", "fastly">>

\* A cdn entry is [url, avc_url]; "" is no usable string, "ftp" a string that
\* does not resolve to an http(s) URL.
CdnEntries ==
  {[url |-> "", avc_url |-> ""], [url |-> "http", avc_url |-> ""],
   [url |-> "", avc_url |-> "http"], [url |-> "ftp", avc_url |-> ""]}

\* what is no plain object with a cdns object
NoBlock ==
  [plain |-> FALSE, default_cdn |-> "",
   cdns |-> [c \in {"akamai", "fastly"} |-> [url |-> "", avc_url |-> ""]]]

\* A block is [plain, default_cdn, cdns]; default_cdn "" is no string, "gone"
\* names no entry of cdns.
CdnBlocks ==
  {NoBlock} \cup [plain : {TRUE}, default_cdn : {"", "akamai", "fastly", "gone"},
                  cdns : [{"akamai", "fastly"} -> CdnEntries]]

\* the progressive array: entries [index, usable, height], usable for a
\* non-empty url string
ProgressiveLists ==
  {q \in UNION {[1 .. n -> [index : 1 .. MaxProgressive, usable : BOOLEAN,
                            height : 1 .. 2]] : n \in 0 .. MaxProgressive} :
     \A n \in 1 .. Len(q) : q[n].index = n}

PlayerConfigs == [progressive : ProgressiveLists, dash : CdnBlocks, hls : CdnBlocks]

ResolverOptions == [preferHls : BOOLEAN, skipProgressive : BOOLEAN]

NoSource == [kind |-> "none", block |-> "none", cdn |-> "none", field |-> "none", index |-> 0]

\* pickFromEntry of pickUrlFromCdnBlock: where the URL of the entry stands
pickFromEntry(entry) ==
  IF entry.url # "" THEN "url" ELSE IF entry.avc_url # "" THEN "avc_url" ELSE ""

RECURSIVE FirstUsableCdn(_, _)
\* the loop over Object.values(cdns), from position n
FirstUsableCdn(cdns, n) ==
  IF n > Len(CdnNames) THEN ""
  ELSE IF pickFromEntry(cdns[CdnNames[n]]) # "" THEN CdnNames[n]
       ELSE FirstUsableCdn(cdns, n + 1)

\* a choice that does not look at default_cdn
UsesDefaultCdn_Never(block) == FALSE

\* typeof block.default_cdn === "string" && cdns[block.default_cdn], with a URL
UsesDefaultCdn(block) ==
  /\ block.default_cdn \in DOMAIN block.cdns
  /\ pickFromEntry(block.cdns[block.default_cdn]) # ""

\* the cdn whose URL pickUrlFromCdnBlock returns, "" for none
pickUrlFromCdnBlock(block) ==
  IF ~block.plain THEN ""
  ELSE IF UsesDefaultCdn(block) THEN block.default_cdn
       ELSE FirstUsableCdn(block.cdns, 1)

\* the block first in turn
FirstBlock(options) == IF options.preferHls THEN "hls" ELSE "dash"

SecondBlock(options) == IF options.preferHls THEN "dash" ELSE "hls"

\* [block, cdn] of the URL resolveVimeoManifestUrlFromPlayerConfig returns
resolveVimeoManifestUrlFromPlayerConfig(config, options) ==
  IF pickUrlFromCdnBlock(config[FirstBlock(options)]) # ""
  THEN [block |-> FirstBlock(options),
        cdn |-> pickUrlFromCdnBlock(config[FirstBlock(options)])]
  ELSE IF pickUrlFromCdnBlock(config[SecondBlock(options)]) # ""
       THEN [block |-> SecondBlock(options),
             cdn |-> pickUrlFromCdnBlock(config[SecondBlock(options)])]
       ELSE [block |-> "none", cdn |-> ""]

\* the index of the entry pickBestVimeoProgressiveFile returns, 0 for null
pickBestVimeoProgressiveFile(config) ==
  LET list == SelectSeq(config.progressive, LAMBDA entry : entry.usable)
  IN IF list = <<>> THEN 0 ELSE sortTracksByQuality(list)[1].index

\* a resolver that looks for a progressive file even when told to skip it
SkipsProgressive_Never(options) == FALSE

SkipsProgressive(options) == options.skipProgressive

\* resolveVimeoManifestUrlFromPlayerPage once the page is fetched and parsed
resolveVimeoManifestUrlFromPlayerPage(config, options) ==
  LET progressive == IF SkipsProgressive(options) THEN 0
                     ELSE pickBestVimeoProgressiveFile(config)
      manifest == resolveVimeoManifestUrlFromPlayerConfig(config, options)
      field == pickFromEntry(config[manifest.block].cdns[manifest.cdn])
  IN IF progressive # 0
     THEN [source |-> [NoSource EXCEPT !.kind = "progressive", !.index = progressive],
           err |-> "none"]
     ELSE IF manifest.cdn = ""
          THEN [source |-> NoSource, err |-> "NoSources"]
          ELSE IF config[manifest.block].cdns[manifest.cdn][field] # "http"
               THEN [source |-> NoSource, err |-> "InvalidManifestUrl"]
               ELSE [source |-> [NoSource EXCEPT !.kind = "manifest",
                                                 !.block = manifest.block,
                                                 !.cdn = manifest.cdn, !.field = field],
                     err |-> "none"]

ResolvesPlayerConfig(i) ==
  /\ job[i].pc = "pc_start"
  /\ LET r == resolveVimeoManifestUrlFromPlayerPage(cfg.config, cfg.resolverOptions)
     IN job' = [job EXCEPT ![i] = [@ EXCEPT !.pc = "pc_done", !.picked = r.source,
                                            !.err = r.err]]
  /\ UNCHANGED <<activeDownloads, canc, statusQ, downloadState, browserDownloads,
                 downloadCancels, netBudget, dropBudget, cfg, capturedItems, capture, offscreen>>

InitPlayerConfig ==
  /\ activeDownloads = [k \in MediaKeys |-> 0]
  /\ job = [i \in Jobs |-> IF i = 1 THEN [IdleJob EXCEPT !.pc = "pc_start"] ELSE IdleJob]
  /\ canc = [c \in Cancels |-> IdleCancel]
  /\ statusQ = <<>>
  /\ downloadState = NoSnapshot
  /\ browserDownloads = {}
  /\ downloadCancels = {}
  /\ netBudget = 0
  /\ dropBudget = 0
  /\ capturedItems = <<>>
  /\ capture = IdleCapture
  /\ offscreen = IdleOffscreen
  /\ \E config \in PlayerConfigs : \E options \in ResolverOptions :
       cfg = [jobs |-> {1}, cancels |-> {}, urls |-> {}, options |-> {NoOptions},
              segs |-> 0, config |-> config, resolverOptions |-> options]

NextPlayerConfig == \E i \in Jobs : ResolvesPlayerConfig(i)

SpecPlayerConfig == InitPlayerConfig /\ [][NextPlayerConfig]_vars

\* ------------------------------------------------ the player page's HTML
\* A text is a sequence over: the marker "window.playerConfig = " (one
\* symbol), the two braces, the two quotes, the backslash, and any other
\* character.
MaxTextLen == 6

Marker == "window.playerConfig = "

Symbols == {Marker, "{", "}", "\"", "'", "\\", "x"}

HtmlTexts == UNION {[1 .. n -> Symbols] : n \in 0 .. MaxTextLen}

\* text.indexOf(what, from): the first position from `from` on, 0 for none
IndexOf(text, what, from) ==
  IF \E n \in from .. Len(text) : text[n] = what
  THEN First({n \in from .. Len(text) : text[n] = what})
  ELSE 0

\* a scanner for which a backslash is an ordinary character of a string
IsEscape_Never(ch) == FALSE

\* ch === "\\"
IsEscape(ch) == ch = "\\"

RECURSIVE ScanObject(_, _, _, _, _, _, _)
\* the loop of extractJsonObjectAfterMarker from position i on: the text of
\* the object, or the empty text
ScanObject(text, objectStart, i, depth, inString, quote, escaped) ==
  IF i > Len(text) THEN <<>>
  ELSE LET ch == text[i]
       IN IF inString
          THEN IF escaped
               THEN ScanObject(text, objectStart, i + 1, depth, TRUE, quote, FALSE)
               ELSE IF IsEscape(ch)
                    THEN ScanObject(text, objectStart, i + 1, depth, TRUE, quote, TRUE)
                    ELSE ScanObject(text, objectStart, i + 1, depth, ch # quote, quote, FALSE)
          ELSE IF ch = "\"" \/ ch = "'"
               THEN ScanObject(text, objectStart, i + 1, depth, TRUE, ch, escaped)
               ELSE IF ch = "{"
                    THEN ScanObject(text, objectStart, i + 1, depth + 1, FALSE, quote, escaped)
                    ELSE IF ch = "}" /\ depth - 1 = 0
                         THEN SubSeq(text, objectStart, i)
                         ELSE ScanObject(text, objectStart, i + 1,
                                         IF ch = "}" THEN depth - 1 ELSE depth,
                                         FALSE, quote, escaped)

extractJsonObjectAfterMarker(text, marker) ==
  LET markerIndex == IndexOf(text, marker, 1)
      objectStart == IndexOf(text, "{", markerIndex + 1)
  IN IF markerIndex = 0 THEN <<>>
     ELSE IF objectStart = 0 THEN <<>>
     ELSE ScanObject(text, objectStart, objectStart, 0, FALSE, "", FALSE)

\* parseVimeoPlayerConfigFromHtml: the object text and the error thrown;
\* valid is whether JSON.parse accepts the object text
parseVimeoPlayerConfigFromHtml(htmlText, valid) ==
  LET objectText == extractJsonObjectAfterMarker(htmlText, Marker)
  IN [objectText |-> objectText,
      err |-> IF objectText = <<>> THEN "NoPlayerConfig"
              ELSE IF valid THEN "none" ELSE "BadPlayerConfigJson"]

\* resolveVimeoManifestUrlFromPlayerPage parses the page it fetched; an error
\* of the parse is its own failure
ParsesPlayerPage(i, valid) ==
  /\ job[i].pc = "html_fetched"
  /\ LET r == parseVimeoPlayerConfigFromHtml(cfg.htmlText, valid)
     IN job' = [job EXCEPT ![i] = [@ EXCEPT !.pc = IF r.err = "none" THEN "html_parsed"
                                                   ELSE "html_threw",
                                            !.objectText = r.objectText, !.err = r.err]]
  /\ UNCHANGED <<activeDownloads, canc, statusQ, downloadState, browserDownloads,
                 downloadCancels, netBudget, dropBudget, cfg, capturedItems, capture, offscreen>>

InitHtml ==
  /\ activeDownloads = [k \in MediaKeys |-> 0]
  /\ job = [i \in Jobs |-> IF i = 1 THEN [IdleJob EXCEPT !.pc = "html_fetched"] ELSE IdleJob]
  /\ canc = [c \in Cancels |-> IdleCancel]
  /\ statusQ = <<>>
  /\ downloadState = NoSnapshot
  /\ browserDownloads = {}
  /\ downloadCancels = {}
  /\ netBudget = 0
  /\ dropBudget = 0
  /\ capturedItems = <<>>
  /\ capture = IdleCapture
  /\ offscreen = IdleOffscreen
  /\ \E text \in HtmlTexts :
       cfg = [jobs |-> {1}, cancels |-> {}, urls |-> {}, options |-> {NoOptions},
              segs |-> 0, htmlText |-> text]

NextHtml == \E i \in Jobs, valid \in BOOLEAN : ParsesPlayerPage(i, valid)

SpecHtml == InitHtml /\ [][NextHtml]_vars

\* ------------------------------------------------------ the captured list
NoMatch == [mediaKey |-> "", resolution |-> ""]

passesVideoPredicate(url) == url.video

parseMatchingInfo(url) ==
  IF url.kind = "custom"
  THEN IF ~url.userId THEN NoMatch
       ELSE IF ~passesVideoPredicate(url) THEN NoMatch
            ELSE [mediaKey |-> url.key, resolution |-> url.resolution]
  ELSE IF url.kind = "vimeo"
       THEN [mediaKey |-> "vimeo:" \o url.key, resolution |-> "adaptive"]
       ELSE NoMatch

\* Number(value) when finite, else -1
parseResolutionNumber(value) ==
  CASE value = "360" -> 360
    [] value = "720" -> 720
    [] value = "1080" -> 1080
    [] OTHER -> -1

Max(a, b) == IF a >= b THEN a ELSE b

\* the candidate replaces the item the map holds for its media key
CandidateWins(candidate, existing) ==
  \/ parseResolutionNumber(candidate.resolution) > parseResolutionNumber(existing.resolution)
  \/ /\ parseResolutionNumber(candidate.resolution) = parseResolutionNumber(existing.resolution)
     /\ candidate.timestamp > existing.timestamp

\* the items that are the first of their kind in the list, in its order;
\* Same(a, b) tells whether two items are of one kind
FirstOfEach(items, Same(_, _)) ==
  LET numbered == [n \in 1 .. Len(items) |-> [n |-> n, item |-> items[n]]]
      firsts == SelectSeq(numbered,
                  LAMBDA e : \A m \in 1 .. e.n - 1 : ~Same(items[m], e.item))
  IN [x \in 1 .. Len(firsts) |-> firsts[x].item]

RECURSIVE KeptOf(_, _, _)
\* what byMediaKey holds for a media key once the first loop of
\* normalizeCapturedItems has seen the key's items from the n-th on
KeptOf(sameKey, n, existing) ==
  IF n > Len(sameKey) THEN existing
  ELSE KeptOf(sameKey, n + 1,
         IF CandidateWins(sameKey[n], existing)
         THEN [sameKey[n] EXCEPT !.timestamp = Max(sameKey[n].timestamp, existing.timestamp)]
         ELSE [existing EXCEPT !.timestamp = Max(sameKey[n].timestamp, existing.timestamp)])

\* byMediaKey.values(): one item per media key, in the order the keys first
\* appear
GroupByMediaKey(items) ==
  LET firsts == FirstOfEach(items, LAMBDA a, b : a.mediaKey = b.mediaKey)
      SameKey(x) == SelectSeq(items, LAMBDA item : item.mediaKey = firsts[x].mediaKey)
  IN [x \in 1 .. Len(firsts) |-> KeptOf(SameKey(x), 2, firsts[x])]

\* combined.sort by timestamp, descending; the sort is stable
SortByTimestamp(items) ==
  LET Rank(n) == 1 + Cardinality({m \in 1 .. Len(items) :
                                    \/ items[m].timestamp > items[n].timestamp
                                    \/ /\ items[m].timestamp = items[n].timestamp
                                       /\ m < n})
      Placed(rank) == [p \in 1 .. Len(items) |->
                         items[CHOOSE n \in 1 .. Len(items) : rank[n] = p]]
  IN CHOOSE sorted \in {Placed(rank) : rank \in {[n \in 1 .. Len(items) |-> Rank(n)] \o <<>>}} :
       TRUE

\* a list that is never cut
CutLength_None(n) == n

\* the loop that fills deduped ends at MAX_ITEMS items
CutLength(n) == Min(n, MAX_ITEMS)

\* the last loop of normalizeCapturedItems: the first item of every URL
Dedupe(combined) ==
  LET firsts == FirstOfEach(combined, LAMBDA a, b : a.url = b.url)
  IN SubSeq(firsts, 1, CutLength(Len(firsts)))

\* every item of the list has a url, a media key and a resolution: none is
\* skipped and none passes through without a media key
normalizeCapturedItems(items) == Dedupe(SortByTimestamp(GroupByMediaKey(items)))

\* a comparison no listed item wins
IsHigher_Never(item, highest) == FALSE

\* itemResolutionNumber > highestResolutionNumber
IsHigher(item, highest) ==
  parseResolutionNumber(item.resolution) > parseResolutionNumber(highest.resolution)

RECURSIVE HighestForMedia(_, _, _)
\* the loop of captureUrl over the items of the captured media key, from the
\* n-th on: highestForMedia
HighestForMedia(sameKey, n, highest) ==
  IF n > Len(sameKey) THEN highest
  ELSE HighestForMedia(sameKey, n + 1,
                       IF IsHigher(sameKey[n], highest) THEN sameKey[n] ELSE highest)

\* a top entry that keeps the time of its item
TopEntry_KeepsTime(highest, now) == highest

\* topEntry of captureUrl
TopEntry(highest, now) == [highest EXCEPT !.timestamp = now]

\* the list captureUrl stores for the URL, the list it read and the time
captureUrl(url, existingItems, now) ==
  LET matchInfo == parseMatchingInfo(url)
      newEntry == [url |-> url, timestamp |-> now, resolution |-> matchInfo.resolution,
                   mediaKey |-> matchInfo.mediaKey]
      sameKey == SelectSeq(existingItems, LAMBDA item : item.mediaKey = matchInfo.mediaKey)
      highestForMedia == HighestForMedia(sameKey, 1, newEntry)
      otherItems == SelectSeq(existingItems,
                      LAMBDA item : item.mediaKey # matchInfo.mediaKey /\ item.url # url)
  IN normalizeCapturedItems(<<TopEntry(highestForMedia, now)>> \o otherItems)

\* the URLs requests are seen for
RequestUrls ==
  {RequestUrl("custom", "a", "720", TRUE), RequestUrl("custom", "a", "1080", TRUE),
   RequestUrl("custom", "a", "1080", FALSE), RequestUrl("custom", "b", "720", TRUE),
   RequestUrl("vimeo", "1", "adaptive", FALSE), RequestUrl("other", "", "", FALSE),
   RequestUrl("custom", "f1", "720", TRUE)}

\* the n-th capture of a list filled by n captures of n media, one per
\* millisecond
Filler(n) ==
  [url |-> RequestUrl("custom", "f" \o ToString(n), "720", TRUE), timestamp |-> n,
   resolution |-> "720", mediaKey |-> "f" \o ToString(n)]

Fillers(n) == [x \in 1 .. n |-> Filler(n + 1 - x)]

\* onBeforeRequest's captureUrl call, up to the list it reads; calls are
\* chained on storageUpdateQueue, and time does not run backwards
CaptureReads(url) ==
  /\ capture.pc = "idle"
  /\ capture.count < MaxCaptures
  /\ parseMatchingInfo(url) # NoMatch
  /\ \E now \in {capture.clock, capture.clock + 1} :
       capture' = [capture EXCEPT !.pc = "read", !.url = url, !.items = capturedItems,
                                  !.now = now, !.clock = now, !.count = @ + 1]
  /\ UNCHANGED <<activeDownloads, job, canc, statusQ, downloadState, browserDownloads,
                 downloadCancels, netBudget, dropBudget, cfg, capturedItems, offscreen>>

\* captureUrl stores the next list
CaptureWrites ==
  /\ capture.pc = "read"
  /\ capturedItems' = captureUrl(capture.url, capture.items, capture.now)
  /\ capture' = [capture EXCEPT !.pc = "idle", !.items = <<>>]
  /\ UNCHANGED <<activeDownloads, job, canc, statusQ, downloadState, browserDownloads,
                 downloadCancels, netBudget, dropBudget, cfg, offscreen>>

\* the popup's remove button reads the list
PopupRemoveReads(mediaKey) ==
  /\ capture.popupPc = "idle"
  /\ capture.popupCount < MaxPopupWrites
  /\ \E n \in 1 .. Len(capturedItems) : capturedItems[n].mediaKey = mediaKey
  /\ capture' = [capture EXCEPT !.popupPc = "read", !.popupItems = capturedItems,
                                !.popupKey = mediaKey, !.popupCount = @ + 1]
  /\ UNCHANGED <<activeDownloads, job, canc, statusQ, downloadState, browserDownloads,
                 downloadCancels, netBudget, dropBudget, cfg, capturedItems, offscreen>>

\* and stores it without the items of the media key, and the status map
\* without the key's status; no download runs while the list is looked at, so
\* the status map it read is the stored one
PopupRemoveWrites ==
  /\ capture.popupPc = "read"
  /\ capturedItems' = SelectSeq(capture.popupItems,
                                LAMBDA item : item.mediaKey # capture.popupKey)
  /\ downloadState' = [k \in DOMAIN downloadState |->
                         IF k = capture.popupKey THEN "none" ELSE downloadState[k]]
  /\ capture' = [capture EXCEPT !.popupPc = "idle", !.popupItems = <<>>, !.popupKey = ""]
  /\ UNCHANGED <<activeDownloads, job, canc, statusQ, browserDownloads,
                 downloadCancels, netBudget, dropBudget, cfg, offscreen>>

\* the popup's clear button
PopupClears ==
  /\ capture.popupPc = "idle"
  /\ capture.popupCount < MaxPopupWrites
  /\ capturedItems # <<>>
  /\ capturedItems' = <<>>
  /\ downloadState' = NoSnapshot
  /\ capture' = [capture EXCEPT !.popupCount = @ + 1]
  /\ UNCHANGED <<activeDownloads, job, canc, statusQ, browserDownloads,
                 downloadCancels, netBudget, dropBudget, cfg, offscreen>>

\* a session whose list is empty, one short of full, or full
InitCapture ==
  /\ activeDownloads = [k \in MediaKeys |-> 0]
  /\ job = [i \in Jobs |-> IdleJob]
  /\ canc = [c \in Cancels |-> IdleCancel]
  /\ statusQ = <<>>
  /\ downloadState = NoSnapshot
  /\ browserDownloads = {}
  /\ downloadCancels = {}
  /\ netBudget = 0
  /\ dropBudget = 0
  /\ cfg = [jobs |-> {}, cancels |-> {}, urls |-> {}, options |-> {NoOptions}, segs |-> 0]
  /\ \E n \in {0, MAX_ITEMS - 1, MAX_ITEMS} :
       /\ capturedItems = Fillers(n)
       /\ capture = [IdleCapture EXCEPT !.clock = n]
  /\ offscreen = IdleOffscreen

NextCapture ==
  \/ \E url \in RequestUrls : CaptureReads(url)
  \/ CaptureWrites
  \/ \E mediaKey \in {"a", "f1"} : PopupRemoveReads(mediaKey)
  \/ PopupRemoveWrites
  \/ PopupClears

SpecCapture == InitCapture /\ [][NextCapture]_vars

\* ------------------------------------------------ ensureOffscreenDocument
\* hasOffscreenDocument: false without chrome.runtime.getContexts, else
\* whether a context of the offscreen document exists
hasOffscreenDocument(o) == o.getContexts /\ o.documents > 0

\* a catch that lets no error of createDocument through
CreateErrorThrown_Never(answer) == FALSE

\* the catch on createDocument's promise: the error is thrown again unless
\* its message includes "Only a single offscreen document"
CreateErrorThrown(answer) == answer \notin {"ok", "OnlySingle"}

\* a handler calls ensureOffscreenDocument, which calls getContexts
EnsureCalled(c) ==
  /\ offscreen.call[c].pc = "idle"
  /\ \A h \in Callers : h < c => offscreen.call[h].pc # "idle"
  /\ offscreen' = [offscreen EXCEPT !.call[c].pc = "has"]
  /\ UNCHANGED <<activeDownloads, job, canc, statusQ, downloadState, browserDownloads,
                 downloadCancels, netBudget, dropBudget, cfg, capturedItems, capture>>

\* the browser answers getContexts
ContextsAnswered(c) ==
  /\ offscreen.call[c].pc = "has"
  /\ offscreen' = [offscreen EXCEPT !.call[c].pc = "has_done",
                                    !.call[c].seen = hasOffscreenDocument(offscreen)]
  /\ UNCHANGED <<activeDownloads, job, canc, statusQ, downloadState, browserDownloads,
                 downloadCancels, netBudget, dropBudget, cfg, capturedItems, capture>>

\* the caller resumes after await hasOffscreenDocument(): it returns, waits
\* for the creation in flight, or calls createDocument
EnsureResumes(c) ==
  /\ offscreen.call[c].pc = "has_done"
  /\ offscreen' =
       IF offscreen.call[c].seen
       THEN [offscreen EXCEPT !.call[c].pc = "ok"]
       ELSE IF offscreen.creating # 0
            THEN [offscreen EXCEPT !.call[c].pc = "waiting",
                                   !.call[c].awaited = offscreen.creating]
            ELSE [offscreen EXCEPT !.call[c].pc = "creating", !.creating = c]
  /\ UNCHANGED <<activeDownloads, job, canc, statusQ, downloadState, browserDownloads,
                 downloadCancels, netBudget, dropBudget, cfg, capturedItems, capture>>

\* the browser answers createDocument: a second document is refused, a first
\* one is created unless the browser fails
CreateAnswered(c, answer) ==
  /\ offscreen.call[c].pc = "creating"
  /\ answer \in IF offscreen.documents > 0 THEN {"OnlySingle"}
                ELSE IF offscreen.failures < MaxCreateFailures THEN {"ok", "OtherError"}
                ELSE {"ok"}
  /\ offscreen' = [offscreen EXCEPT
                     !.call[c].pc = "answered", !.call[c].answer = answer,
                     !.documents = IF answer = "ok" THEN @ + 1 ELSE @,
                     !.failures = IF answer = "OtherError" THEN @ + 1 ELSE @]
  /\ UNCHANGED <<activeDownloads, job, canc, statusQ, downloadState, browserDownloads,
                 downloadCancels, netBudget, dropBudget, cfg, capturedItems, capture>>

\* the creation promise settles: the catch, then the finally that clears
\* creatingOffscreenDocument, then the creator's await
CreateSettles(c) ==
  /\ offscreen.call[c].pc = "answered"
  /\ offscreen' = [offscreen EXCEPT
                     !.creating = 0,
                     !.call[c].pc = IF CreateErrorThrown(offscreen.call[c].answer)
                                    THEN "failed" ELSE "ok"]
  /\ UNCHANGED <<activeDownloads, job, canc, statusQ, downloadState, browserDownloads,
                 downloadCancels, netBudget, dropBudget, cfg, capturedItems, capture>>

\* a caller that awaited the creation in flight resumes with its outcome
WaiterResumes(c) ==
  /\ offscreen.call[c].pc = "waiting"
  /\ offscreen.call[offscreen.call[c].awaited].pc \in {"ok", "failed"}
  /\ offscreen' = [offscreen EXCEPT
                     !.call[c].pc =
                       IF CreateErrorThrown(offscreen.call[offscreen.call[c].awaited].answer)
                       THEN "failed" ELSE "ok"]
  /\ UNCHANGED <<activeDownloads, job, canc, statusQ, downloadState, browserDownloads,
                 downloadCancels, netBudget, dropBudget, cfg, capturedItems, capture>>

\* a worker that starts with or without an offscreen document left by an
\* earlier run, in a browser with or without getContexts
InitOffscreen ==
  /\ activeDownloads = [k \in MediaKeys |-> 0]
  /\ job = [i \in Jobs |-> IdleJob]
  /\ canc = [c \in Cancels |-> IdleCancel]
  /\ statusQ = <<>>
  /\ downloadState = NoSnapshot
  /\ browserDownloads = {}
  /\ downloadCancels = {}
  /\ netBudget = 0
  /\ dropBudget = 0
  /\ cfg = [jobs |-> {}, cancels |-> {}, urls |-> {}, options |-> {NoOptions}, segs |-> 0]
  /\ capturedItems = <<>>
  /\ capture = IdleCapture
  /\ \E g \in BOOLEAN, d \in {0, 1} :
       offscreen = [IdleOffscreen EXCEPT !.getContexts = g, !.documents = d]

NextOffscreen ==
  \/ \E c \in Callers : EnsureCalled(c)
  \/ \E c \in Callers : ContextsAnswered(c)
  \/ \E c \in Callers : EnsureResumes(c)
  \/ \E c \in Callers, answer \in {"ok", "OnlySingle", "OtherError"} : CreateAnswered(c, answer)
  \/ \E c \in Callers : CreateSettles(c)
  \/ \E c \in Callers : WaiterResumes(c)

SpecOffscreen == InitOffscreen /\ [][NextOffscreen]_vars

\* ------------------------------------------------------------- properties
\* a start request whose pipeline is registered and has not reached its finally
Live(i) == job[i].pc \notin {"idle", "rejected", "dup_report", "dup_done", "done"}

\* a start request that found its identity registered
Duplicate(i) == job[i].pc \in {"dup_report", "dup_done"}

\* ------------------------------------------------ the sleep function alone
\* the delays the fetcher calls sleep with
BackoffValues == {BackoffMs(a) : a \in 0 .. MAX_SEGMENT_RETRIES - 1}

\* sleep(ms, signal) is called by a caller that holds the signal
SleepCalled(i, ms) ==
  /\ job[i].pc = "caller"
  /\ Len(job[i].slept) < cfg.segs
  /\ ms \in BackoffValues
  /\ job' = [job EXCEPT ![i] = sleep([@ EXCEPT !.thrown = "none"], ms)]
  /\ UNCHANGED <<activeDownloads, canc, statusQ, downloadState, browserDownloads,
                 downloadCancels, netBudget, dropBudget, cfg, capturedItems, capture, offscreen>>

\* abortController.abort() on the caller's signal
SignalAborts(i) ==
  /\ job[i].pc \in {"caller", "seg_sleep"}
  /\ ~job[i].aborted
  /\ job' = [job EXCEPT ![i] = AbortJob(@)]
  /\ UNCHANGED <<activeDownloads, canc, statusQ, downloadState, browserDownloads,
                 downloadCancels, netBudget, dropBudget, cfg, capturedItems, capture, offscreen>>

\* the promise of sleep settles and the caller has its result
SleepSettles(i) ==
  /\ job[i].pc = "seg_sleep"
  /\ job' = [job EXCEPT ![i] = [@ EXCEPT !.pc = "caller",
                                          !.thrown = SleepResult(job[i])]]
  /\ UNCHANGED <<activeDownloads, canc, statusQ, downloadState, browserDownloads,
                 downloadCancels, netBudget, dropBudget, cfg, capturedItems, capture, offscreen>>

\* sleep called up to SleepMaxCalls times with every delay of the backoff
\* schedule, on a signal that is aborted before, during or after a call
InitSleep ==
  /\ activeDownloads = [k \in MediaKeys |-> 0]
  /\ \E a \in BOOLEAN :
       job = [i \in Jobs |-> IF i = 1
                              THEN [IdleJob EXCEPT !.pc = "caller", !.aborted = a,
                                                   !.cancelled = a]
                              ELSE IdleJob]
  /\ canc = [c \in Cancels |-> IdleCancel]
  /\ statusQ = <<>>
  /\ downloadState = NoSnapshot
  /\ browserDownloads = {}
  /\ downloadCancels = {}
  /\ netBudget = 0
  /\ dropBudget = 0
  /\ capturedItems = <<>>
  /\ capture = IdleCapture
  /\ offscreen = IdleOffscreen
  /\ cfg = [jobs |-> {1}, cancels |-> {}, urls |-> {}, options |-> {NoOptions},
            segs |-> SleepMaxCalls]

NextSleep ==
  \/ \E i \in Jobs, ms \in BackoffValues : SleepCalled(i, ms)
  \/ \E i \in Jobs : SignalAborts(i)
  \/ \E i \in Jobs : SleepSettles(i)

SpecSleep == InitSleep /\ [][NextSleep]_vars

\* C1: the registry holds at most one job per identity: two live pipelines
\* never share a media key, the registry entry of a key is its one live
\* pipeline, and a start that found its identity registered is not entered in
\* the registry, issues no fetch, starts no save and sends only the
\* "already in progress" running patch.
C1_OneJobPerIdentity ==
  /\ \A i, h \in Jobs :
       Live(i) /\ Live(h) /\ job[i].mediaKey = job[h].mediaKey => i = h
  /\ \A i \in Jobs : Live(i) => activeDownloads[job[i].mediaKey] = i
  /\ \A k \in MediaKeys :
       activeDownloads[k] # 0 =>
         Live(activeDownloads[k]) /\ job[activeDownloads[k]].mediaKey = k
  /\ \A i \in Jobs :
       Duplicate(i) =>
         /\ ~job[i].fetched
         /\ job[i].downloadId = 0
         /\ job[i].outcome = "none"
         /\ \A n \in 1 .. Len(statusQ) :
              statusQ[n].from = <<"job", i>> => statusQ[n].state = "running"

\* a duplicate start has returned while the first job of its identity, which
\* a cancel request has reached, is still in the registry
C1_Witness ==
  \E i, h \in Jobs :
    /\ job[h].pc = "dup_done"
    /\ Live(i)
    /\ job[i].mediaKey = job[h].mediaKey
    /\ job[i].cancelled

\* C2: a job that a cancel request reaches before its terminal status is
\* decided (while a playlist or manifest is resolved, a segment is fetched or
\* retried, or a backoff sleep runs) ends with the terminal status cancelled,
\* never error or success.
C2_CancelledMidLoopEndsCancelled ==
  [][\A i \in Jobs :
       (job[i].cancelled /\ job[i].outcome = "none") =>
         job'[i].outcome \in {"none", "cancelled"}]_vars

\* a job cancelled during a backoff sleep reports cancelled
C2_Witness ==
  \E i \in Jobs :
    /\ job[i].pc = "rep_terminal"
    /\ job[i].outcome = "cancelled"
    /\ job[i].woken
    /\ job[i].attempt >= 1

\* C3: once every process has finished and no status update is pending, the
\* status of an identity whose cancel request was accepted is cancelled; it
\* is not left at cancel_requested after the job has left the registry.
\* (Runs in which a status message was lost are left out.)
C3_CancelRequestedIsIntermediate ==
  \A c \in Cancels :
    (/\ canc[c].pc = "done"
     /\ canc[c].found
     /\ job[canc[c].target].pc = "done"
     /\ statusQ = <<>>
     /\ dropBudget = MaxDrops)
    => downloadState[canc[c].mediaKey] = "cancelled"

\* C4: a job whose signal is aborted issues no further fetch of any kind,
\* the later steps of the fallback orchestrator included.
\* (No step of an aborted job enters the await of a fetch: it is on that
\* await only if it was there before the step, with the same request.)
C4_NoFetchAfterAbort ==
  [][\A i \in Jobs :
       (job[i].aborted /\ job'[i].pc \in {"fetch_text", "seg_fetch"}) =>
         /\ job[i].pc = job'[i].pc
         /\ job[i].site = job'[i].site
         /\ job[i].requests = job'[i].requests]_vars

\* an aborted job goes on inside the fallback orchestrator: the download of
\* the embedded progressive file was aborted, its error swallowed, and the
\* lesson-page lookup is announced
C4_Witness ==
  \E i \in Jobs :
    /\ job[i].aborted
    /\ job[i].pc = "rep_lookup"
    /\ job[i].site = "emb_progressive"
    /\ job[i].fetched

\* C5: when a job has ended cancelled and the external save had been started
\* for it (a save id was returned), a cancel for that save id has been sent
\* once the cancel requests have finished.
C5_StartedSaveIsCancelled ==
  \A i \in Jobs :
    (/\ job[i].pc = "done"
     /\ job[i].outcome = "cancelled"
     /\ i \in browserDownloads
     /\ \A c \in Cancels : canc[c].pc \in {"idle", "done"})
    => i \in downloadCancels

\* C6: every job entered in the registry is eventually removed from it,
\* whether its pipeline ends in success, error or cancellation, provided each
\* awaited call eventually returns or fails.
C6_RegisteredJobIsRemoved ==
  \A k \in MediaKeys : (activeDownloads[k] # 0) ~> (activeDownloads[k] = 0)

\* after a job has ended cancelled and left the registry, a later start of
\* the same identity is registered as a new job
C6_Witness ==
  \E i, h \in Jobs :
    /\ job[i].pc = "done"
    /\ job[i].outcome = "cancelled"
    /\ Live(h)
    /\ job[h].mediaKey = job[i].mediaKey
    /\ activeDownloads[job[i].mediaKey] = h

\* C7: a cancel request for an identity with no registry entry reports
\* found = false and changes nothing: no job's flag or signal, no status
\* patch, no save cancel, no registry entry.
C7_CancelOfUnknownIdentity ==
  [][\A c \in Cancels :
       (canc[c].pc = "idle" /\ canc'[c].pc # "idle"
          /\ activeDownloads[canc'[c].mediaKey] = 0) =>
         /\ canc'[c].pc = "done"
         /\ ~canc'[c].found
         /\ UNCHANGED <<activeDownloads, job, statusQ, downloadState,
                        browserDownloads, downloadCancels>>]_vars

\* a cancel for an identity that is not registered has returned while a job
\* of another identity is running
C7_Witness ==
  \E c \in Cancels, i \in Jobs :
    /\ canc[c].pc = "done"
    /\ ~canc[c].found
    /\ Live(i)
    /\ job[i].mediaKey # canc[c].mediaKey
    /\ ~job[i].cancelled

\* C8 (as stated): a segment whose every attempt fails is requested exactly
\* 12 times; a 13th request is never made.
C8_TwelveRequests ==
  \A i \in Jobs :
    /\ job[i].requests <= 12
    /\ (job[i].pc = "rep_terminal" /\ job[i].err = "SegmentFetchFailed") =>
         job[i].requests = 12

\* C8 (amended): with the retry budget of 12, a segment whose every attempt
\* fails is requested exactly 13 times, the first attempt and 12 retries
\* with a backoff sleep before each retry, and then fails with the error
\* naming the URL; a 14th request is never made.
C8_ThirteenRequests ==
  \A i \in Jobs :
    /\ job[i].requests <= 13
    /\ (job[i].pc = "rep_terminal" /\ job[i].err = "SegmentFetchFailed") =>
         /\ job[i].requests = 13
         /\ Len(job[i].slept) = 12
         /\ job[i].outcome = "error"

\* the segment fetch has failed after its last retry
C8_Witness ==
  \E i \in Jobs :
    /\ job[i].pc = "rep_terminal"
    /\ job[i].err = "SegmentFetchFailed"
    /\ job[i].site = "segment"

\* min(3000, 250 * 2^(k-1)) written out
ExpectedBackoff(k) ==
  CASE k = 1 -> 250 [] k = 2 -> 500 [] k = 3 -> 1000 [] k = 4 -> 2000 [] OTHER -> 3000

\* C9: the backoff slept after the k-th consecutive failed attempt of a
\* segment is min(3000, 250 * 2^(k-1)) ms, one sleep per failed attempt, and
\* the attempt in flight is the first after those failures, so the bytes
\* returned are those of the first attempt that succeeds.
C9_BackoffSchedule ==
  \A i \in Jobs :
    /\ \A k \in 1 .. Len(job[i].slept) : job[i].slept[k] = ExpectedBackoff(k)
    /\ job[i].pc = "seg_sleep" => job[i].requests = Len(job[i].slept)
    /\ job[i].pc = "seg_fetch" => job[i].requests = Len(job[i].slept) + 1
    /\ (job[i].hasChunks /\ job[i].site = "segment") =>
         job[i].requests = Len(job[i].slept) + 1

\* attempts 1 and 2 failed, attempt 3 succeeded: the sleeps were 250 and 500
C9_Witness ==
  \E i \in Jobs :
    /\ job[i].hasChunks
    /\ job[i].site = "segment"
    /\ job[i].slept = <<250, 500>>
    /\ job[i].requests = 3

\* C10: once the signal is aborted the segment fetcher makes no further
\* attempt and no retry, consumes no retry budget, and ends with a
\* cancellation, never with "Segment fetch failed".
C10_AbortEndsSegmentFetch ==
  [][\A i \in Jobs :
       (job[i].aborted /\ job[i].pc \in {"seg_fetch", "seg_sleep"}) =>
         \/ job'[i].pc = job[i].pc /\ job'[i].attempt = job[i].attempt
              /\ job'[i].requests = job[i].requests
         \/ job'[i].pc = "rep_terminal" /\ job'[i].outcome = "cancelled"
              /\ job'[i].err = "none" /\ job'[i].attempt = job[i].attempt
              /\ job'[i].requests = job[i].requests]_vars

\* the abort came while a retry of the segment was in flight and the job
\* reports cancelled
C10_Witness ==
  \E i \in Jobs :
    /\ job[i].pc = "rep_terminal"
    /\ job[i].outcome = "cancelled"
    /\ job[i].site = "segment"
    /\ job[i].attempt >= 1
    /\ job[i].requests = job[i].attempt + 1
    /\ ~job[i].woken

C12_SegmentsInListOrder ==
  \A i \in Jobs :
    LET j == job[i]
    IN /\ \A n \in 1 .. Len(j.chunks) : j.chunks[n] = n - 1
       /\ \A n \in 1 .. Len(j.reqOrder) - 1 :
            j.reqOrder[n + 1] \in {j.reqOrder[n], j.reqOrder[n] + 1}
       /\ \A n \in 1 .. Len(j.reqOrder) : j.reqOrder[n] <= Len(j.chunks)
       /\ (j.site = "segment" /\ j.pc \in {"seg_fetch", "seg_sleep"}) =>
            /\ j.reqOrder # <<>>
            /\ j.reqOrder[Len(j.reqOrder)] = Len(j.chunks)
            /\ Len(j.chunks) < j.segs

\* two segments were assembled and one of them needed a retry
C12_Witness ==
  \E i \in Jobs :
    /\ job[i].chunks = <<0, 1>>
    /\ Len(job[i].reqOrder) = 3
    /\ job[i].hasChunks

\* C13: a start request whose URL no classification rule matches is rejected
\* as unsupported: no job is registered for it, it issues no fetch, and once
\* its status updates are stored its status record is not in state running.
C13_UnsupportedUrlRejected ==
  \A i \in Jobs :
    (job[i].pc = "rejected" /\ statusQ = <<>>) =>
      /\ \A k \in MediaKeys : activeDownloads[k] # i
      /\ ~job[i].fetched
      /\ downloadState[getMediaKeyFromUrl(job[i].url)] # "running"

\* some track of the family has a non-empty segment list or a direct URL
HasUsable(tracks) == \E n \in 1 .. Len(tracks) : tracks[n].usable

\* the only usable tracks are in video and none of them has an audio signal
SilentVideoOnly(m) ==
  /\ ~HasUsable(m.muxed)
  /\ ~HasUsable(m.audio_video)
  /\ HasUsable(m.video)
  /\ \A n \in 1 .. Len(m.video) : m.video[n].usable => ~m.video[n].audio

\* C14: when the only usable tracks of a manifest are in video and none of
\* them carries an embedded-audio signal, no track is selected: the
\* selection fails with the needs-remux error, the one the caller enters the
\* fallback for, if audio has a usable track, and with the video-only error,
\* for which the caller does not, otherwise.
C14_SilentVideoIsNeverSelected ==
  \A i \in Jobs :
    (job[i].pc = "selected" /\ SilentVideoOnly(cfg.manifest)) =>
      /\ job[i].selection = NoSelection
      /\ HasUsable(cfg.manifest.audio) =>
           job[i].err = "NeedsRemux" /\ IsRemuxMessage(job[i].err)
      /\ ~HasUsable(cfg.manifest.audio) =>
           job[i].err = "VideoOnly" /\ ~IsRemuxMessage(job[i].err)

\* two usable silent video tracks and a usable audio track: needs remux
C14_Witness ==
  \E i \in Jobs :
    /\ job[i].pc = "selected"
    /\ SilentVideoOnly(cfg.manifest)
    /\ Len(cfg.manifest.video) = 2
    /\ \A n \in 1 .. 2 : cfg.manifest.video[n].usable
    /\ HasUsable(cfg.manifest.audio)
    /\ job[i].err = "NeedsRemux"

\* C15: the selected track is a usable track of muxed if muxed has one, else
\* a usable track of audio_video if that has one, else a usable video track
\* with an embedded-audio signal, whatever the heights in the other families.
C15_FamilyPriority ==
  \A i \in Jobs :
    LET m == cfg.manifest
        sel == job[i].selection
    IN job[i].pc = "selected" =>
         /\ HasUsable(m.muxed) =>
              sel.family = "muxed" /\ m.muxed[sel.index].usable
         /\ (~HasUsable(m.muxed) /\ HasUsable(m.audio_video)) =>
              sel.family = "audio_video" /\ m.audio_video[sel.index].usable
         /\ (~HasUsable(m.muxed) /\ ~HasUsable(m.audio_video) /\ sel # NoSelection) =>
              /\ sel.family = "video_embedded_audio"
              /\ m.video[sel.index].usable
              /\ m.video[sel.index].audio

\* a muxed track of height 1 is selected although a usable video track with
\* audio and an audio_video track are higher
C15_Witness ==
  \E i \in Jobs :
    LET m == cfg.manifest
    IN /\ job[i].pc = "selected"
       /\ job[i].selection.family = "muxed"
       /\ m.muxed[1].height = 1
       /\ HasUsable(m.audio_video) /\ m.audio_video[1].height = 2
       /\ \E n \in 1 .. Len(m.video) :
            m.video[n].usable /\ m.video[n].audio /\ m.video[n].height = 2

ResolverFailure(j) ==
  \/ j.err \in ManifestErrors \ {"NeedsRemux"}
  \/ j.err = "FetchFailed" /\ j.site = "manifest"
  \/ j.err = "SegmentFetchFailed" /\ j.caller = "vimeo"

\* C18: the remux branch is entered only for the needs-remux error of the
\* manifest resolver; a job whose manifest resolver failed in any other way
\* ends in error with that cause and has entered no step of the remux branch.
C18_OnlyRemuxEntersFallback ==
  \A i \in Jobs :
    /\ job[i].fallback \in {"none", "NeedsRemux"}
    /\ (job[i].fallback = "none" /\ job[i].pc # "done") =>
         /\ ~job[i].resolvedVia
         /\ job[i].ffmpegInput = "none"
         /\ job[i].site \notin {"emb_progressive", "lesson_page", "fb_player",
                                "fb_progressive"}
         /\ job[i].caller # "ts"
         /\ job[i].pc \notin {"rep_emb_progressive", "rep_lookup", "rep_fb_player",
                              "rep_fb_progressive", "rep_ts_fallback"}
    /\ (job[i].pc = "rep_terminal" /\ ResolverFailure(job[i])) =>
         (job[i].outcome = "error" /\ job[i].fallback = "none")

\* the thirteenth request for a segment of the selected track has failed and
\* the job ends in error without the remux branch
C18_Witness ==
  \E i \in Jobs :
    /\ job[i].pc = "rep_terminal"
    /\ job[i].err = "SegmentFetchFailed"
    /\ job[i].caller = "vimeo"
    /\ job[i].requests = MAX_SEGMENT_RETRIES + 1
    /\ job[i].fallback = "none"

\* C19: once a cancellation error has been thrown inside a job, the job is
\* at its cancelled terminal patch: it has entered no later step and sent no
\* further running patch.
C19_CancellationShortCircuits ==
  \A i \in Jobs :
    job[i].raised => (job[i].pc = "rep_terminal" /\ job[i].outcome = "cancelled")

\* C20: a step in which a status patch is lost leaves its sender as a
\* delivered patch leaves it, resumed at the same place with the same state,
\* so that the job takes the same next step; and a job that is done has left
\* the registry, whatever became of its patches.
C20_ReportingIsBestEffort ==
  /\ [][dropBudget' < dropBudget =>
          \A i \in Jobs :
            job'[i] = job[i] \/ job'[i] = [job[i] EXCEPT !.wait = FALSE]]_vars
  /\ [](\A i \in Jobs :
          job[i].pc = "done" => activeDownloads[job[i].mediaKey] # i)

\* a patch of the job was lost, no cancel was asked for, and the job has
\* saved its file and left the registry
C20_Witness ==
  \E i \in Jobs :
    /\ dropBudget < MaxDrops
    /\ \A c \in Cancels : canc[c].pc = "idle"
    /\ job[i].pc = "done"
    /\ job[i].outcome = "success"
    /\ activeDownloads[job[i].mediaKey] = 0

\* C21: a cancel that finds a live job sets the job's cancelled flag and
\* aborts its signal at once; whatever chrome.downloads.cancel answers, the
\* canceller goes from the save-cancel call to its cancel_requested patch
\* without touching the job, and returns found = true; it never fails.
C21_CancelSurvivesSaveAnswer ==
  /\ [][\A c \in Cancels :
          /\ (canc[c].pc = "idle" /\ canc'[c].pc # "idle" /\ canc'[c].target # 0) =>
               (job'[canc'[c].target].cancelled /\ job'[canc'[c].target].aborted)
          /\ (canc[c].pc = "save_cancel" /\ canc'[c].pc # "save_cancel") =>
               /\ canc'[c].pc = "report"
               /\ job' = job
               /\ statusQ' = Append(statusQ,
                    StatusMessage(canc[c].mediaKey, "cancel_requested", <<"cancel", c>>))
          /\ (canc[c].pc # "done" /\ canc'[c].pc = "done" /\ canc'[c].target # 0) =>
               (canc[c].pc = "report" /\ canc'[c].found)]_vars
  /\ [](\A c \in Cancels : canc[c].pc \in {"idle", "save_cancel", "report", "done"})

\* the save-cancel call was answered with an error the handler does not
\* know, and the canceller's cancel_requested patch has been delivered
C21_Witness ==
  \E c \in Cancels :
    /\ canc[c].pc = "report"
    /\ ~canc[c].wait
    /\ canc[c].answer = "OtherError"
    /\ job[canc[c].target].cancelled
    /\ job[canc[c].target].aborted

\* the resolver of the playlist harness has returned or thrown
PlaylistFinished(i) == job[i].pc \in {"pl_done", "pl_error"}

\* the positions of the content lines of a text that resolve to an http(s) URL
ContentPositions(lines) ==
  {n \in 1 .. Len(lines) : lines[n].t = "content" /\ lines[n].ref # "other"}

\* the positions of the initialization directives that resolve to an http(s) URL
MapPositions(lines) ==
  {n \in 1 .. Len(lines) : lines[n].t = "map" /\ lines[n].ref # "other"}

Range(q) == {q[n] : n \in 1 .. Len(q)}

\* the text has a content line that looks like a segment reference
HasSegmentLine(lines) ==
  \E n \in 1 .. Len(lines) : lines[n].t = "content" /\ lines[n].seg

\* C22: for a text with a segment-like content line the resolver has fetched
\* the given URL and nothing else, and its list holds every content line
\* resolved against that URL: a relative line n as the URL's n, an absolute
\* one as itself.
C22_DirectPlaylistOneFetch ==
  \A i \in Jobs :
    (job[i].pc \in {"pl_main", "pl_media", "pl_done", "pl_error"}
       /\ HasSegmentLine(cfg.playlist)) =>
      /\ job[i].fetchedUrls = <<PlaylistUrl>>
      /\ job[i].pc = "pl_done" =>
           \A n \in ContentPositions(cfg.playlist) :
             (IF cfg.playlist[n].ref = "rel" THEN Append(PlaylistUrl, n) ELSE <<"abs", n>>)
               \in Range(job[i].segmentUrls)

\* a text whose second line is a relative segment line is resolved
C22_Witness ==
  \E i \in Jobs :
    /\ job[i].pc = "pl_done"
    /\ Len(cfg.playlist) >= 2
    /\ cfg.playlist[2] = [t |-> "content", ref |-> "rel", seg |-> TRUE]
    /\ cfg.playlist[1].t = "content" /\ ~cfg.playlist[1].seg
    /\ Len(job[i].segmentUrls) >= 2

\* C23 as stated: for every text with no segment-like content line the
\* resolver has, when it ends, fetched exactly two documents.
C23_AlwaysTwoFetches ==
  \A i \in Jobs :
    (PlaylistFinished(i) /\ ~HasSegmentLine(cfg.playlist)) =>
      Len(job[i].fetchedUrls) = 2

\* what the last content line of the first text resolves to, NoUrl if it has
\* none or it resolves to no http(s) URL
TailUrl(lines) ==
  LET content == {n \in 1 .. Len(lines) : lines[n].t = "content"}
      last == CHOOSE n \in content : \A m \in content : m <= n
  IN IF content = {} THEN NoUrl
     ELSE IF lines[last].ref = "rel" THEN Append(PlaylistUrl, last)
     ELSE IF lines[last].ref = "abs" THEN <<"abs", last>>
     ELSE NoUrl

\* C23: never more than two documents are fetched.  For a text with no
\* segment-like content line whose last content line resolves to an http(s)
\* URL, the resolver fetches the given URL and that URL, and the list holds
\* the content lines of the second text resolved against the second URL; for
\* a text with no such last content line it fails after the one fetch.
C23_TwoLevelTwoFetches ==
  \A i \in Jobs :
    /\ Len(job[i].fetchedUrls) <= 2
    /\ (PlaylistFinished(i) /\ ~HasSegmentLine(cfg.playlist)) =>
         IF TailUrl(cfg.playlist) = NoUrl
         THEN job[i].pc = "pl_error" /\ job[i].fetchedUrls = <<PlaylistUrl>>
         ELSE /\ job[i].fetchedUrls = <<PlaylistUrl, TailUrl(cfg.playlist)>>
              /\ job[i].pc = "pl_done" =>
                   /\ \A n \in ContentPositions(job[i].mediaLines) :
                        (IF job[i].mediaLines[n].ref = "rel"
                         THEN Append(TailUrl(cfg.playlist), n) ELSE <<"abs", n>>)
                          \in Range(job[i].segmentUrls)
                   /\ \A n \in 1 .. Len(job[i].mediaLines) :
                        Append(PlaylistUrl, n) \notin Range(job[i].segmentUrls)

\* a master text whose last content line is relative, and a media text with
\* a relative segment line, are resolved
C23_Witness ==
  \E i \in Jobs :
    /\ job[i].pc = "pl_done"
    /\ ~HasSegmentLine(cfg.playlist)
    /\ Len(job[i].fetchedUrls) = 2
    /\ job[i].fetchedUrls[2][1] = "playlist"
    /\ \E n \in ContentPositions(job[i].mediaLines) :
         job[i].mediaLines[n].ref = "rel" /\ job[i].mediaLines[n].seg

\* C24: when the media lines hold initialization directives that resolve to
\* an http(s) URL, the list starts with the URL of the last of them, holds no
\* URL of a directive anywhere else, and goes on with the resolved content
\* lines in the order of the text.
C24_InitSegmentFirst ==
  \A i \in Jobs :
    LET lines == job[i].mediaLines
        urls == job[i].segmentUrls
        maps == MapPositions(lines)
        last == CHOOSE n \in maps : \A m \in maps : m <= n
        PositionOf(u) == u[Len(u)]
    IN (job[i].pc = "pl_done" /\ maps # {}) =>
         /\ urls[1] = resolveUrl(lines[last], last, job[i].mediaBaseUrl)
         /\ \A k \in 2 .. Len(urls) : PositionOf(urls[k]) \notin maps
         /\ {PositionOf(urls[k]) : k \in 2 .. Len(urls)} = ContentPositions(lines)
         /\ \A k \in 2 .. Len(urls) : \A h \in 2 .. Len(urls) :
              k < h => PositionOf(urls[k]) < PositionOf(urls[h])

\* two directives with a content line between them: the list is the second
\* directive's URL and then the content line
C24_Witness ==
  \E i \in Jobs :
    LET lines == job[i].mediaLines
    IN /\ job[i].pc = "pl_done"
       /\ Len(lines) = 3
       /\ lines[1].t = "map" /\ lines[1].ref = "rel"
       /\ lines[2].t = "content" /\ lines[2].ref = "rel"
       /\ lines[3].t = "map" /\ lines[3].ref = "abs"
       /\ job[i].segmentUrls = <<<<"abs", 3>>, Append(job[i].mediaBaseUrl, 2)>>

\* the named URLs u and v are the same but for the resolution segment and
\* the query string
SameButResolution(u, v) ==
  LET p == ParsedUrl(u)
      q == ParsedUrl(v)
  IN /\ p.hostname = q.hostname
     /\ Len(p.pathname) = Len(q.pathname)
     /\ Len(p.pathname) >= 2
     /\ p.pathname[Len(p.pathname)] \in Digits
     /\ q.pathname[Len(q.pathname)] \in Digits
     /\ SubSeq(p.pathname, 1, Len(p.pathname) - 1) = SubSeq(q.pathname, 1, Len(q.pathname) - 1)

\* C25: two start requests whose URLs differ only in the trailing resolution
\* digits or in the query string get the same media key, and the one that
\* arrives while the other's job is in the registry is reported as already
\* running and not registered.
C25_ResolutionIsNotIdentity ==
  \A i, h \in Jobs :
    (i # h /\ job[i].pc # "idle" /\ job[h].pc # "idle"
       /\ SameButResolution(job[i].url, job[h].url)) =>
      /\ job[i].mediaKey = job[h].mediaKey
      /\ job[i].mediaKey # ""
      /\ (Live(i) /\ job[h].pc # "done") => (Duplicate(h) /\ activeDownloads[job[h].mediaKey] = i)

\* the 1080 URL of key a was started while the job of the 720 URL with a
\* query string runs, and was answered as a duplicate
C25_Witness ==
  \E i, h \in Jobs :
    /\ job[i].url = "custom_a_q" /\ Live(i)
    /\ job[h].url = "custom_a_hd" /\ job[h].pc = "dup_done"

FilenameBuilt == job[1].pc = "fn_done"

SanitizedTitle == sanitizeFilePart(cfg.title)

\* the video token: the sanitized videoId, at most 48 characters of it
VideoToken == Slice(sanitizeFilePart(cfg.videoId), MaxVideoIdLength)

TitleAndToken ==
  IF SanitizedTitle # <<>> THEN SanitizedTitle \o <<SpacePiece(1)>> \o VideoToken
  ELSE VideoToken

NameIsLegal ==
  /\ StrLen(job[1].filename.name) <= MaxNameLength
  /\ \A x \in 1 .. Len(job[1].filename.name) : job[1].filename.name[x].k # "illegal"
  /\ job[1].filename.ext \in {"ts", "mp4", "m3u8", "bin"}
  /\ cfg.extension.name = "" => job[1].filename.ext = "ts"

PlayerConfigResolved == job[1].pc = "pc_done"

HasProgressive == \E n \in 1 .. Len(cfg.config.progressive) : cfg.config.progressive[n].usable

\* the block has a cdn entry with a URL
UsableBlock(name) ==
  /\ cfg.config[name].plain
  /\ \E c \in DOMAIN cfg.config[name].cdns : pickFromEntry(cfg.config[name].cdns[c]) # ""

\* the block's default_cdn names an entry with a URL
UsableDefault(name) ==
  /\ cfg.config[name].plain
  /\ cfg.config[name].default_cdn \in DOMAIN cfg.config[name].cdns
  /\ pickFromEntry(cfg.config[name].cdns[cfg.config[name].default_cdn]) # ""

\* the block and cdn the answer came from, also when the URL found there was
\* refused
TriedBlock ==
  IF UsableBlock(FirstBlock(cfg.resolverOptions)) THEN FirstBlock(cfg.resolverOptions)
  ELSE IF UsableBlock(SecondBlock(cfg.resolverOptions))
       THEN SecondBlock(cfg.resolverOptions)
       ELSE "none"

\* C27: with a progressive entry that has a URL and skipProgressive not set
\* the resolver returns a progressive file whatever the dash and hls blocks
\* hold; otherwise the answer comes from the hls block before the dash block
\* when preferHls is set and from the dash block before the hls block when it
\* is not, and within the block from the default cdn's entry when that has a
\* URL, else from the first entry that has one.
C27_ProgressiveThenPreferredBlock ==
  PlayerConfigResolved =>
    IF HasProgressive /\ ~cfg.resolverOptions.skipProgressive
    THEN /\ job[1].picked.kind = "progressive"
         /\ cfg.config.progressive[job[1].picked.index].usable
         /\ \A n \in 1 .. Len(cfg.config.progressive) :
              cfg.config.progressive[n].usable
                => cfg.config.progressive[n].height
                     <= cfg.config.progressive[job[1].picked.index].height
    ELSE /\ job[1].picked.kind # "progressive"
         /\ TriedBlock = "none" <=> job[1].err = "NoSources"
         /\ job[1].picked.kind = "manifest" =>
              /\ job[1].picked.block = TriedBlock
              /\ UsableDefault(TriedBlock)
                   => job[1].picked.cdn = cfg.config[TriedBlock].default_cdn
              /\ ~UsableDefault(TriedBlock)
                   => /\ job[1].picked.cdn = CdnNames[1]
                        \/ pickFromEntry(cfg.config[TriedBlock].cdns[CdnNames[1]]) = ""
                      /\ pickFromEntry(cfg.config[TriedBlock].cdns[job[1].picked.cdn]) # ""
         /\ job[1].err = "InvalidManifestUrl" =>
              LET c == IF UsableDefault(TriedBlock) THEN cfg.config[TriedBlock].default_cdn
                       ELSE IF pickFromEntry(cfg.config[TriedBlock].cdns[CdnNames[1]]) # ""
                            THEN CdnNames[1] ELSE CdnNames[2]
              IN cfg.config[TriedBlock].cdns[c].url = "ftp"

\* hls preferred and both blocks usable: the answer is the hls block's default
\* cdn, which is not the first cdn with a URL
C27_Witness ==
  /\ PlayerConfigResolved
  /\ cfg.resolverOptions.preferHls
  /\ HasProgressive /\ cfg.resolverOptions.skipProgressive
  /\ UsableBlock("dash") /\ UsableBlock("hls")
  /\ pickFromEntry(cfg.config.hls.cdns[CdnNames[1]]) # ""
  /\ job[1].picked.kind = "manifest"
  /\ job[1].picked.block = "hls"
  /\ job[1].picked.cdn = CdnNames[2]

\* a step in which captureUrl stores its list
CaptureStored == capture.pc = "read" /\ capture'.pc = "idle"

CapturedKey == parseMatchingInfo(capture.url).mediaKey

\* what the list captureUrl read holds for the captured media key
ListedBefore == SelectSeq(capture.items, LAMBDA item : item.mediaKey = CapturedKey)

OnePerMediaKey ==
  \A n \in 1 .. Len(capturedItems) : \A m \in 1 .. Len(capturedItems) :
    capturedItems[n].mediaKey = capturedItems[m].mediaKey => n = m

\* C28: the list never holds two items of one media key; when a capture is
\* stored, the item of its media key has the higher of the resolution listed
\* before and the captured one, and a listed URL of a higher resolution than
\* the captured one stays.
C28_HighestResolutionKept ==
  /\ []OnePerMediaKey
  /\ [][CaptureStored =>
          \E n \in 1 .. Len(capturedItems') :
            /\ capturedItems'[n].mediaKey = CapturedKey
            /\ IF ListedBefore = <<>>
               THEN capturedItems'[n].url = capture.url
               ELSE LET listed == ListedBefore[1]
                        captured == parseResolutionNumber(capture.url.resolution)
                    IN /\ parseResolutionNumber(capturedItems'[n].resolution)
                            = Max(parseResolutionNumber(listed.resolution), captured)
                       /\ parseResolutionNumber(listed.resolution) > captured
                            => capturedItems'[n].url = listed.url]_vars

\* 720 was captured after 1080: the list still shows the 1080 URL, on top
C28_Witness ==
  /\ capture.pc = "idle"
  /\ capture.count = 2
  /\ capture.url = RequestUrl("custom", "a", "720", TRUE)
  /\ capturedItems # <<>>
  /\ capturedItems[1].url = RequestUrl("custom", "a", "1080", TRUE)
  /\ capturedItems[1].timestamp = capture.clock

\* C29: the list never holds more than 30 items or one URL twice; when a
\* capture is stored, no item it drops from the list it read was captured
\* later than an item it keeps.
C29_AtMostThirtyNewest ==
  /\ [](/\ Len(capturedItems) <= MAX_ITEMS
        /\ \A n \in 1 .. Len(capturedItems) : \A m \in 1 .. Len(capturedItems) :
             capturedItems[n].url = capturedItems[m].url => n = m)
  /\ [][CaptureStored =>
          \A n \in 1 .. Len(capture.items) :
            (/\ capture.items[n].mediaKey # CapturedKey
             /\ \A m \in 1 .. Len(capturedItems') :
                  capturedItems'[m].mediaKey # capture.items[n].mediaKey)
              => \A m \in 1 .. Len(capturedItems') :
                   capture.items[n].timestamp <= capturedItems'[m].timestamp]_vars

\* two new media were captured into a list of 29: the list holds 30 items,
\* the two on top, and the oldest item is gone
C29_Witness ==
  /\ capture.pc = "idle"
  /\ capture.count = 2
  /\ capture.popupCount = 0
  /\ Len(capturedItems) = MAX_ITEMS
  /\ {capturedItems[1].mediaKey, capturedItems[2].mediaKey} = {"a", "b"}
  /\ \A n \in 1 .. Len(capturedItems) : capturedItems[n].mediaKey # "f1"
  /\ capturedItems[MAX_ITEMS].mediaKey = "f2"

\* C30: when a capture is stored, the item of its media key is the first of
\* the list and has the time of the capture, and it has the captured URL when
\* that URL was listed before; the list goes from the latest time to the
\* earliest.
C30_CapturedGoesOnTop ==
  /\ [][CaptureStored =>
          /\ capturedItems' # <<>>
          /\ capturedItems'[1].mediaKey = CapturedKey
          /\ capturedItems'[1].timestamp = capture.now
          /\ (\E n \in 1 .. Len(capture.items) : capture.items[n].url = capture.url)
               => capturedItems'[1].url = capture.url]_vars
  /\ [](\A n \in 1 .. Len(capturedItems) - 1 :
          capturedItems[n].timestamp >= capturedItems[n + 1].timestamp)

\* the oldest URL of a full list was captured again: it is on top, with a
\* later time than the second item, and the list is still full
C30_Witness ==
  /\ capture.pc = "idle"
  /\ capture.count = 1
  /\ capture.popupCount = 0
  /\ capture.url = RequestUrl("custom", "f1", "720", TRUE)
  /\ Len(capturedItems) = MAX_ITEMS
  /\ capturedItems[1].url = capture.url
  /\ capturedItems[1].timestamp > capturedItems[2].timestamp
  /\ capturedItems[MAX_ITEMS].mediaKey = "f2"

\* C31: a job enters the save call only with its signal not aborted, its
\* cancelled flag not set and the bytes of every segment of its list, in the
\* list's order; and a download id is only ever returned to a job that made
\* the call.
C31_SaveOnlyWithAllSegments ==
  /\ [][\A i \in Jobs :
          (job[i].pc # "save_start" /\ job'[i].pc = "save_start") =>
            /\ ~job[i].aborted /\ ~job[i].cancelled
            /\ job'[i].hasChunks
            /\ job'[i].chunks = [n \in 1 .. job'[i].segs |-> n - 1]]_vars
  /\ [](\A i \in Jobs :
          /\ i \in browserDownloads => job[i].downloadId = i
          /\ (job[i].pc = "rep_terminal" /\ Len(job[i].chunks) < job[i].segs)
               => job[i].downloadId = 0 /\ i \notin browserDownloads)

\* a job cancelled after the first of two segments reports cancelled, and
\* nothing was saved
C31_Witness ==
  \E i \in Jobs :
    /\ job[i].pc = "rep_terminal"
    /\ job[i].outcome = "cancelled"
    /\ job[i].segs = 2 /\ job[i].chunks = <<0>>
    /\ browserDownloads = {}

\* the job was inserted into the registry
Registered(i) == job[i].pc \notin {"idle", "rejected", "queued", "start_failed", "dup_report", "dup_done"}

\* C32: a registered job sends at most one terminal patch and, once it has
\* sent one, no other patch; it is removed from the registry only after its
\* terminal patch was sent and its delivery awaited; and it sends success only
\* with the download id the save returned.
C32_OneTerminalPatch ==
  /\ [](\A i \in Jobs :
          Registered(i) =>
            /\ job[i].terminals <= 1
            /\ job[i].terminals = 1 <=> job[i].pc \in {"rep_terminal", "done"}
            /\ job[i].pc \in {"rep_terminal", "done"} => job[i].outcome \in TerminalStates
            /\ job[i].outcome = "success"
                 => job[i].downloadId = i /\ i \in browserDownloads
            /\ job[i].pc # "done" <=> activeDownloads[job[i].mediaKey] = i)
  /\ [][\A i \in Jobs :
          /\ (Registered(i) /\ job[i].terminals = 1 /\ Len(statusQ') > Len(statusQ))
               => statusQ'[Len(statusQ')].from # <<"job", i>>
          /\ (Registered(i) /\ job[i].pc # "done" /\ job'[i].pc = "done")
               => /\ job[i].terminals = 1 /\ ~job[i].wait
                  /\ \A n \in 1 .. Len(statusQ) : statusQ[n].from # <<"job", i>>]_vars

\* a job that has sent success and left the registry
C32_Witness ==
  \E i \in Jobs :
    /\ job[i].pc = "done"
    /\ job[i].outcome = "success"
    /\ job[i].terminals = 1
    /\ activeDownloads[job[i].mediaKey] = 0
    /\ downloadState[job[i].mediaKey] = "success"

\* C33: status patches are merged per identity without loss: the record of an
\* identity changes only when a patch for that identity is stored, and then it
\* becomes what the patch says; the store of a patch for another identity
\* leaves it as it was.
C33_PatchesMergedWithoutLoss ==
  [][\A k \in StatusKeys :
       downloadState'[k] # downloadState[k] =>
         /\ Len(statusQ) > 0
         /\ statusQ[1].key = k
         /\ downloadState'[k] = statusQ[1].state]_vars

\* C34: once a duplicate start of an identity has returned, no job of that
\* identity is in the registry and no patch for it is on its way, the status
\* of the identity is not running.
C34_DuplicateNeverLeavesRunning ==
  \A k \in MediaKeys :
    ( /\ \E d \in Jobs : job[d].pc = "dup_done" /\ job[d].mediaKey = k
      /\ activeDownloads[k] = 0
      /\ \A i \in Jobs : job[i].pc \in {"idle", "done", "dup_done", "rejected"}
      /\ \A c \in Cancels : canc[c].pc \in {"idle", "done", "failed"}
      /\ statusQ = <<>> )
    => downloadState[k] # "running"

\* C35: for every URL that classifies, the key of the 'Queued...' record of
\* the background worker and the key the popup sends with a cancel are the
\* identity of the job manager; a start request that goes on from 'Queued...'
\* to a registration or to a duplicate report keeps its key.
C35_ControllerKeyIsJobIdentity ==
  /\ [](\A u \in Urls :
          extractMediaInfoFromUrl(u) # NoInfo =>
            /\ getMediaKeyFromUrl(u) = extractMediaInfoFromUrl(u).mediaKey
            /\ getItemMediaKey(StoredItem(u)) = extractMediaInfoFromUrl(u).mediaKey
            /\ deriveMediaInfoFromUrl(u).sourceType = extractMediaInfoFromUrl(u).sourceType)
  /\ [][\A i \in Jobs :
          (job[i].pc = "queued" /\ job'[i].pc \notin {"queued", "rejected", "start_failed"})
            => /\ job'[i].mediaKey = job[i].mediaKey
               /\ job'[i].mediaKey = getItemMediaKey(StoredItem(job[i].url))]_vars

\* a job that was queued by the background worker, is registered and has
\* updated the record of its key
C35_Witness ==
  \E i \in Jobs :
    /\ job[i].pc = "done"
    /\ job[i].mediaKey = getMediaKeyFromUrl(job[i].url)
    /\ job[i].mediaKey # job[i].url
    /\ downloadState[getMediaKeyFromUrl(job[i].url)] \in TerminalStates

\* the media keys of a captured list
KeysOf(items) == {items[n].mediaKey : n \in 1 .. Len(items)}

\* C36: the captured list is updated atomically: the list a capture stores
\* holds, besides the captured medium, only media the stored list holds at
\* that moment (a medium removed meanwhile does not come back), and the list a
\* removal stores holds every medium of the stored list but the removed one
\* (a medium captured meanwhile is not lost).
C36_CapturedListAtomic ==
  [][/\ (capture.pc = "read" /\ capture'.pc = "idle")
          => KeysOf(capturedItems')
               \subseteq KeysOf(capturedItems) \cup {parseMatchingInfo(capture.url).mediaKey}
     /\ (capture.popupPc = "read" /\ capture'.popupPc = "idle")
          => KeysOf(capturedItems) \ {capture.popupKey} \subseteq KeysOf(capturedItems')]_vars

\* the callers whose createDocument call has not settled
Creators == {c \in Callers : offscreen.call[c].pc \in {"creating", "answered"}}

\* C37: callers of ensureOffscreenDocument share the creation: at most one
\* createDocument call is in flight, and creatingOffscreenDocument is set
\* exactly while it is; a caller that finds it set waits for it; a caller
\* whose createDocument is refused with "Only a single offscreen document"
\* returns normally; and whenever a call has returned normally exactly one
\* offscreen document exists.
C37_CreationShared ==
  /\ [](/\ Cardinality(Creators) <= 1
        /\ offscreen.creating # 0 <=> Creators # {}
        /\ offscreen.creating # 0 => Creators = {offscreen.creating}
        /\ \A c \in Callers :
             /\ offscreen.call[c].pc = "ok" => offscreen.documents = 1
             /\ offscreen.call[c].pc = "waiting"
                  => offscreen.call[c].awaited \in Callers \ {c})
  /\ [][\A c \in Callers :
          /\ (offscreen.call[c].pc = "has_done" /\ ~offscreen.call[c].seen
                /\ offscreen.creating # 0)
               => offscreen'.call[c].pc \in {"has_done", "waiting"}
          /\ (offscreen.call[c].pc = "answered" /\ offscreen'.call[c].pc # "answered"
                /\ offscreen.call[c].answer = "OnlySingle")
               => offscreen'.call[c].pc = "ok"]_vars

\* one caller created the document, one waited for that creation, and one,
\* whose check ran before the document existed, was refused and returned
C37_Witness ==
  \E a, b, c \in Callers :
    /\ offscreen.call[a].pc = "ok" /\ offscreen.call[a].answer = "ok"
    /\ offscreen.call[b].pc = "ok" /\ offscreen.call[b].awaited = a
    /\ offscreen.call[c].pc = "ok" /\ offscreen.call[c].answer = "OnlySingle"
    /\ offscreen.getContexts
    /\ offscreen.documents = 1

\* C38: jobs of different identities are independent: a job's cancelled flag
\* and signal are set only by the cancel request that names its identity and
\* found it, a job ends cancelled only when it was cancelled, and a registry
\* entry is removed only by the finally of the job it holds.
C38_JobsIndependent ==
  /\ [](\A i \in Jobs :
          /\ (job[i].cancelled \/ job[i].aborted)
               => \E c \in Cancels : canc[c].target = i /\ canc[c].mediaKey = job[i].mediaKey
          /\ job[i].outcome = "cancelled" => job[i].cancelled)
  /\ [][/\ \A i \in Jobs :
             (job'[i].cancelled # job[i].cancelled \/ job'[i].aborted # job[i].aborted)
               => \E c \in Cancels :
                    /\ canc[c].pc = "idle" /\ canc'[c].pc # "idle"
                    /\ canc'[c].mediaKey = job[i].mediaKey
                    /\ activeDownloads[job[i].mediaKey] = i
        /\ \A k \in MediaKeys :
             (activeDownloads[k] # 0 /\ activeDownloads'[k] # activeDownloads[k])
               => /\ activeDownloads'[k] = 0
                  /\ job[activeDownloads[k]].pc = "rep_terminal"
                  /\ job'[activeDownloads[k]].pc = "done"]_vars

\* a cancelled job has left the registry while the job of another identity,
\* untouched, is still registered and fetching
C38_Witness ==
  \E i, h \in Jobs :
    /\ job[i].pc = "done" /\ job[i].outcome = "cancelled"
    /\ job[h].pc = "seg_fetch"
    /\ job[h].mediaKey # job[i].mediaKey
    /\ activeDownloads[job[h].mediaKey] = h
    /\ ~job[h].cancelled /\ ~job[h].aborted

\* the value of a track under the first of the fields it has, -1 without one
FieldOrMinusOne(track, first, second, third) ==
  IF first \in DOMAIN track THEN track[first]
  ELSE IF second \in DOMAIN track THEN track[second]
  ELSE IF third \in DOMAIN track THEN track[third] ELSE -1

\* height, then bitrate, then number of segments
QualityOf(track) ==
  <<FieldOrMinusOne(track, "height", "max_height", "max_height"),
    FieldOrMinusOne(track, "bitrate", "avg_bitrate", "bandwidth"),
    IF "segments" \in DOMAIN track THEN track.segments ELSE 0>>

\* a is below b in the lexicographic order
Below(a, b) ==
  \/ a[1] < b[1]
  \/ a[1] = b[1] /\ a[2] < b[2]
  \/ a[1] = b[1] /\ a[2] = b[2] /\ a[3] < b[3]

\* C39: the selected track of the family is maximal under the lexicographic
\* order of height (or max_height), bitrate (or avg_bitrate, or bandwidth) and
\* number of segments, a missing height or bitrate counting as -1, and it is
\* the earliest track of the manifest with that quality.
C39_SelectedTrackIsMaximal ==
  job[1].pc = "selected" =>
    LET tracks == cfg.manifest.muxed
        at == job[1].selection.index
    IN /\ job[1].selection.family = "muxed"
       /\ at \in 1 .. Len(tracks)
       /\ \A n \in 1 .. Len(tracks) :
            /\ ~Below(QualityOf(tracks[at]), QualityOf(tracks[n]))
            /\ QualityOf(tracks[n]) = QualityOf(tracks[at]) => at <= n

\* the second track, of bitrate 0, wins against a first track of the same
\* height that states no bitrate
C39_Witness ==
  /\ job[1].pc = "selected"
  /\ job[1].selection.index = 2
  /\ LET tracks == cfg.manifest.muxed
     IN /\ QualityOf(tracks[1])[1] = QualityOf(tracks[2])[1]
        /\ QualityOf(tracks[1])[2] = -1
        /\ QualityOf(tracks[2])[2] = 0

RECURSIVE ModeBefore(_, _, _)
\* how the scanner that started at position start stands before position i:
\* outside a string ("out"), inside a string of one of the two quotes, or
\* inside it right after a backslash
ModeBefore(text, start, i) ==
  IF i = start THEN [in |-> "out", escaped |-> FALSE]
  ELSE LET m == ModeBefore(text, start, i - 1)
           ch == text[i - 1]
       IN IF m.in = "out"
          THEN IF ch \in {"\"", "'"} THEN [in |-> ch, escaped |-> FALSE] ELSE m
          ELSE IF m.escaped THEN [m EXCEPT !.escaped = FALSE]
          ELSE IF ch = "\\" THEN [m EXCEPT !.escaped = TRUE]
          ELSE IF ch = m.in THEN [in |-> "out", escaped |-> FALSE]
          ELSE m

\* the brace depth after position i: opening minus closing braces outside
\* strings from start to i
DepthAfter(text, start, i) ==
  Cardinality({n \in start .. i : text[n] = "{" /\ ModeBefore(text, start, n).in = "out"})
    - Cardinality({n \in start .. i : text[n] = "}" /\ ModeBefore(text, start, n).in = "out"})

\* the positions of a closing brace outside strings at which the depth is zero
ClosesAt(text, start) ==
  {i \in start .. Len(text) :
     /\ text[i] = "}"
     /\ ModeBefore(text, start, i).in = "out"
     /\ DepthAfter(text, start, i) = 0}

\* C40: for a text with the marker, the extracted text runs from the first
\* "{" after the marker to the first "}" outside strings at which the brace
\* depth is back at zero; without such a "{" or such a "}" nothing is
\* extracted and the parse of the page throws.
C40_ExtractsBalancedObject ==
  (job[1].pc \in {"html_parsed", "html_threw"}
     /\ \E n \in 1 .. Len(cfg.htmlText) : cfg.htmlText[n] = Marker) =>
    LET text == cfg.htmlText
        after == First({n \in 1 .. Len(text) : text[n] = Marker}) + 1
        opens == {n \in after .. Len(text) : text[n] = "{"}
    IN IF opens # {} /\ ClosesAt(text, First(opens)) # {}
       THEN /\ job[1].objectText = SubSeq(text, First(opens), First(ClosesAt(text, First(opens))))
            /\ job[1].err \in {"none", "BadPlayerConfigJson"}
       ELSE /\ job[1].objectText = <<>>
            /\ job[1].pc = "html_threw"
            /\ job[1].err = "NoPlayerConfig"

\* a closing brace inside a string that an escaped quote keeps open: nothing
\* is extracted
C40_Witness ==
  /\ job[1].pc = "html_threw"
  /\ cfg.htmlText = <<Marker, "{", "\"", "\\", "\"", "}">>
  /\ job[1].objectText = <<>>


====
